---------------------------- MODULE Spec2Model ----------------------------
(***************************************************************************)
(* A model of the back end of mlog++ (MinekPo1/mlogpp): the textual        *)
(* peephole optimizer and the label resolver of generator.py, and the      *)
(* linker of linker.py.                                                    *)
(*                                                                         *)
(* Program text is a Python str.  It is modelled as a sequence of          *)
(* one-character strings, so that substring search, regular expression     *)
(* matching, splitting and joining are computed the way the code computes  *)
(* them.  NL is the line feed; SP is the blank.                            *)
(***************************************************************************)
EXTENDS Integers, Sequences, FiniteSets, TLC

NL == "\n"
SP == " "

Digit == <<"0", "1", "2", "3", "4", "5", "6", "7", "8", "9">>
DigitSet == {Digit[i] : i \in 1..10}
LowerSet == {"a","b","c","d","e","f","g","h","i","j","k","l","m",
             "n","o","p","q","r","s","t","u","v","w","x","y","z"}
UpperSet == {"A","B","C","D","E","F","G","H","I","J","K","L","M",
             "N","O","P","Q","R","S","T","U","V","W","X","Y","Z"}
AlphaSet == LowerSet \cup UpperSet
\* [a-zA-Z_@] and [a-zA-Z_0-9] and [a-zA-Z_0-9@] and [a-zA-Z_0-9@\.]
IdStartSet == AlphaSet \cup {"_", "@"}
IdCharSet == AlphaSet \cup DigitSet \cup {"_"}
WordCharSet == IdCharSet \cup {"@"}
OperandCharSet == WordCharSet \cup {"."}
\* what \s matches, as far as the modelled alphabet goes
SpaceSet == {SP, NL, "\t"}

(***************************************************************************)
(* Python str primitives.                                                  *)
(***************************************************************************)
AllIn(s, set) == \A i \in 1..Len(s) : s[i] \in set

\* one or more characters of a class: the regular expression  [set]+
Plus(s, set) == Len(s) >= 1 /\ AllIn(s, set)

\* s.startswith(p)
StartsWith(s, p) == Len(s) >= Len(p) /\ SubSeq(s, 1, Len(p)) = p

\* s[k:] with k counted from 0
From(s, k) == SubSeq(s, k + 1, Len(s))

\* whether sub occurs in s at the (1-based) position i
OccursAt(s, sub, i) == i + Len(sub) - 1 <= Len(s) /\ SubSeq(s, i, i + Len(sub) - 1) = sub

\* the first position >= i at which sub occurs in s, or 0
FindFrom(s, sub, i) ==
    LET hits == {p \in i..(Len(s) - Len(sub) + 1) : OccursAt(s, sub, p)}
    IN IF hits = {} THEN 0 ELSE CHOOSE p \in hits : \A q \in hits : p <= q

\* sub in s
Contains(s, sub) == FindFrom(s, sub, 1) # 0

\* len(re.findall(sub, s)) for a pattern without metacharacters, and
\* s.count(sub): the non-overlapping occurrences, leftmost first
RECURSIVE CountFrom(_, _, _)
CountFrom(s, sub, i) ==
    LET p == FindFrom(s, sub, i)
    IN IF p = 0 \/ Len(sub) = 0 THEN 0 ELSE 1 + CountFrom(s, sub, p + Len(sub))

Count(s, sub) == CountFrom(s, sub, 1)

\* s.replace(old, new)
RECURSIVE Replace(_, _, _)
Replace(s, old, new) ==
    LET p == FindFrom(s, old, 1)
    IN IF p = 0 \/ Len(old) = 0 THEN s
       ELSE SubSeq(s, 1, p - 1) \o new \o Replace(From(s, p + Len(old) - 1), old, new)

\* s.split(sep, n) for a one-character sep: at most n splits, empty
\* pieces kept
RECURSIVE SplitN(_, _, _)
SplitN(s, sep, n) ==
    LET p == FindFrom(s, <<sep>>, 1)
    IN IF n = 0 \/ p = 0 THEN <<s>>
       ELSE <<SubSeq(s, 1, p - 1)>> \o SplitN(From(s, p), sep, n - 1)

\* s.splitlines(): the lines without their line feeds; a final line feed
\* opens no further line, and the empty text has no line
RECURSIVE SplitLines(_)
SplitLines(s) ==
    IF s = <<>> THEN <<>>
    ELSE LET p == FindFrom(s, <<NL>>, 1)
         IN IF p = 0 THEN <<s>>
            ELSE <<SubSeq(s, 1, p - 1)>> \o SplitLines(From(s, p))

\* s.lstrip(), s.rstrip(), s.strip()
RECURSIVE LStrip(_)
LStrip(s) == IF s # <<>> /\ Head(s) \in SpaceSet THEN LStrip(Tail(s)) ELSE s

RECURSIVE RStrip(_)
RStrip(s) ==
    IF s # <<>> /\ s[Len(s)] \in SpaceSet THEN RStrip(SubSeq(s, 1, Len(s) - 1)) ELSE s

Strip(s) == LStrip(RStrip(s))

\* s.split(): the maximal runs of non-blank characters
RECURSIVE Split(_)
Split(s) ==
    LET t == LStrip(s)
    IN IF t = <<>> THEN <<>>
       ELSE LET ends == {i \in 1..Len(t) : t[i] \in SpaceSet}
                e == IF ends = {} THEN Len(t) + 1
                     ELSE CHOOSE i \in ends : \A j \in ends : i <= j
            IN <<SubSeq(t, 1, e - 1)>> \o Split(From(t, e - 1))

\* sep.join(parts)
RECURSIVE Join(_, _)
Join(parts, sep) ==
    IF parts = <<>> THEN <<>>
    ELSE IF Len(parts) = 1 THEN parts[1]
    ELSE parts[1] \o sep \o Join(Tail(parts), sep)

\* the text built by   tmp += ln + "\n"   over the lines
RECURSIVE Unlines(_)
Unlines(lns) == IF lns = <<>> THEN <<>> ELSE Head(lns) \o <<NL>> \o Unlines(Tail(lns))

\* str(n) of an int
RECURSIVE NatStr(_)
NatStr(n) == IF n < 10 THEN <<Digit[n + 1]>> ELSE NatStr(n \div 10) \o <<Digit[(n % 10) + 1]>>

IntStr(n) == IF n < 0 THEN <<"-">> \o NatStr(0 - n) ELSE NatStr(n)

\* the value of one decimal digit character
DigitVal(c) == CHOOSE d \in 0..9 : Digit[d + 1] = c

\* int(s) of a string of decimal digits
RECURSIVE DigitsVal(_)
DigitsVal(s) ==
    IF s = <<>> THEN 0 ELSE 10 * DigitsVal(SubSeq(s, 1, Len(s) - 1)) + DigitVal(s[Len(s)])


(***************************************************************************)
(* Words of the instruction text.                                          *)
(***************************************************************************)
kSet == <<"s","e","t">>
kOp == <<"o","p">>
kSensor == <<"s","e","n","s","o","r">>
kJump == <<"j","u","m","p">>
kSub == <<"s","u","b">>
kTmp == <<"_","_","t","m","p">>
kMpp == <<"_","_","m","p","p">>
kTrue == <<"t","r","u","e">>
kAlways == <<"a","l","w","a","y","s">>
kEqual == <<"e","q","u","a","l">>
kNotEqual == <<"n","o","t","E","q","u","a","l">>
kLessThan == <<"l","e","s","s","T","h","a","n">>
kLessThanEq == kLessThan \o <<"E","q">>
kGreaterThan == <<"g","r","e","a","t","e","r","T","h","a","n">>
kGreaterThanEq == kGreaterThan \o <<"E","q">>
kStrictEqual == <<"s","t","r","i","c","t","E","q","u","a","l">>

\* a line from its words:  " ".join(words)
Ln(words) == Join(words, <<SP>>)

(***************************************************************************)
(* GEN_REGEXES.  Every pattern is used with fullmatch on one line, and     *)
(* every pattern is a list of words separated by single blanks, so a line  *)
(* matches when line.split(" ", k) has the k+1 words the pattern asks for. *)
(***************************************************************************)
\* [a-zA-Z_@][a-zA-Z_0-9]*
IsIdent(w) == Len(w) >= 1 /\ w[1] \in IdStartSet /\ AllIn(Tail(w), IdCharSet)

\* \S+
IsNonSpace(w) == Len(w) >= 1 /\ \A i \in 1..Len(w) : w[i] \notin SpaceSet

\* .+  (any characters but the line feed)
IsRest(w) == Len(w) >= 1 /\ \A i \in 1..Len(w) : w[i] # NL

\* __tmp[0-9]+  and  __mpp[0-9]+
IsTmpName(w) == StartsWith(w, kTmp) /\ Plus(From(w, Len(kTmp)), DigitSet)
IsMppName(w) == StartsWith(w, kMpp) /\ Plus(From(w, Len(kMpp)), DigitSet)

\* [0-9]+(\.[0-9]+)?
IsNum(w) ==
    LET d == SplitN(w, ".", 1)
    IN /\ Plus(d[1], DigitSet)
       /\ Len(d) = 2 => Plus(d[2], DigitSet)

\* LABEL: ^<[a-zA-Z_@][a-zA-Z_0-9]*$
ReLABEL(ln) == Len(ln) >= 1 /\ ln[1] = "<" /\ IsIdent(Tail(ln))

\* JUMP: ^>[a-zA-Z_@][a-zA-Z_0-9]*$
ReJUMP(ln) == Len(ln) >= 1 /\ ln[1] = ">" /\ IsIdent(Tail(ln))

\* CJMP: ^>[a-zA-Z_@][a-zA-Z_0-9]* \!?[a-zA-Z_0-9@]+$
ReCJMP(ln) ==
    LET w == SplitN(ln, SP, 1)
    IN /\ Len(w) = 2
       /\ ReJUMP(w[1])
       /\ \/ Plus(w[2], WordCharSet)
          \/ Len(w[2]) >= 1 /\ w[2][1] = "!" /\ Plus(Tail(w[2]), WordCharSet)

\* ((==)|(\!=)|(>=)|(<=)|>|<)
JumpOperators == {<<"=","=">>, <<"!","=">>, <<">","=">>, <<"<","=">>, <<">">>, <<"<">>}

\* EJMP: ^>[a-zA-Z_@][a-zA-Z_0-9]* [a-zA-Z_0-9@\.]+ ((==)|(\!=)|(>=)|(<=)|>|<) [a-zA-Z_0-9@\.]+$
ReEJMP(ln) ==
    LET w == SplitN(ln, SP, 3)
    IN /\ Len(w) = 4
       /\ ReJUMP(w[1])
       /\ Plus(w[2], OperandCharSet)
       /\ w[3] \in JumpOperators
       /\ Plus(w[4], OperandCharSet)

\* TMPS: ^set __tmp[0-9]+ .+$
ReTMPS(ln) ==
    LET w == SplitN(ln, SP, 2)
    IN Len(w) = 3 /\ w[1] = kSet /\ IsTmpName(w[2]) /\ IsRest(w[3])

\* TMPSE: ^sensor __tmp[0-9]+ \S+ \S+$
ReTMPSE(ln) ==
    LET w == SplitN(ln, SP, 3)
    IN Len(w) = 4 /\ w[1] = kSensor /\ IsTmpName(w[2]) /\ IsNonSpace(w[3]) /\ IsNonSpace(w[4])

\* TMPSA: ^set [a-zA-Z_@][a-zA-Z_0-9]* __tmp[0-9]+$
ReTMPSA(ln) ==
    LET w == SplitN(ln, SP, 2)
    IN Len(w) = 3 /\ w[1] = kSet /\ IsIdent(w[2]) /\ IsTmpName(w[3])

\* TMPOP: ^op [a-zA-Z]+( [a-zA-Z_@][a-zA-Z_0-9]*){2} .+$
ReTMPOP(ln) ==
    LET w == SplitN(ln, SP, 4)
    IN /\ Len(w) = 5 /\ w[1] = kOp /\ Plus(w[2], AlphaSet)
       /\ IsIdent(w[3]) /\ IsIdent(w[4]) /\ IsRest(w[5])

\* MJUMP: ^jump [0-9]+ [a-zA-Z]+ [a-zA-Z_0-9@]+ [a-zA-Z_0-9@]+$
ReMJUMP(ln) ==
    LET w == SplitN(ln, SP, 4)
    IN /\ Len(w) = 5 /\ w[1] = kJump /\ Plus(w[2], DigitSet) /\ Plus(w[3], AlphaSet)
       /\ Plus(w[4], WordCharSet) /\ Plus(w[5], WordCharSet)

\* MCALC: ^op [a-zA-Z]+ [a-zA-Z_0-9@]+ [0-9]+(\.[0-9]+)? [0-9]+(\.[0-9]+)?$
ReMCALC(ln) ==
    LET w == SplitN(ln, SP, 4)
    IN /\ Len(w) = 5 /\ w[1] = kOp /\ Plus(w[2], AlphaSet) /\ Plus(w[3], WordCharSet)
       /\ IsNum(w[4]) /\ IsNum(w[5])

\* VARA: ^(set \S+ \S+)|(op [a-zA-Z]+( \S+){3})$
ReVARA(ln) ==
    LET w == SplitN(ln, SP, 4)
    IN \/ Len(w) = 3 /\ w[1] = kSet /\ IsNonSpace(w[2]) /\ IsNonSpace(w[3])
       \/ /\ Len(w) = 5 /\ w[1] = kOp /\ Plus(w[2], AlphaSet)
          /\ IsNonSpace(w[3]) /\ IsNonSpace(w[4]) /\ IsNonSpace(w[5])

\* NUM: ^[0-9]+(\.[0-9]+)?$
ReNUM(ln) == IsNum(ln)

\* the six comparison opcodes of TCOMP
CompareOps == {kEqual, kNotEqual, kGreaterThan, kLessThan, kGreaterThanEq, kLessThanEq}

\* TCOMP: ^op ((equal)|...|(lessThanEq)) __tmp[0-9]+ \S+ \S+$
ReTCOMP(ln) ==
    LET w == SplitN(ln, SP, 4)
    IN /\ Len(w) = 5 /\ w[1] = kOp /\ w[2] \in CompareOps /\ IsTmpName(w[3])
       /\ IsNonSpace(w[4]) /\ IsNonSpace(w[5])

\* TJUMP: ^>__mpp[0-9]+ !__tmp[0-9]+$
ReTJUMP(ln) ==
    LET w == SplitN(ln, SP, 1)
    IN /\ Len(w) = 2
       /\ Len(w[1]) >= 1 /\ w[1][1] = ">" /\ IsMppName(Tail(w[1]))
       /\ Len(w[2]) >= 1 /\ w[2][1] = "!" /\ IsTmpName(Tail(w[2]))

\* the symbol of the comparison itself, where the table has its inverse
JumpConditionsSame(cond) ==
    CASE cond = kEqual -> <<"=","=">>
      [] cond = kNotEqual -> <<"!","=">>
      [] cond = kGreaterThan -> <<">">>
      [] cond = kLessThan -> <<"<">>
      [] cond = kGreaterThanEq -> <<">","=">>
      [] cond = kLessThanEq -> <<"<","=">>

\* JUMP_CONDITIONS_REPLACE
JUMP_CONDITIONS_REPLACE(cond) ==
    CASE cond = kEqual -> <<"!","=">>
      [] cond = kNotEqual -> <<"=","=">>
      [] cond = kGreaterThan -> <<"<","=">>
      [] cond = kLessThan -> <<">","=">>
      [] cond = kGreaterThanEq -> <<"<">>
      [] cond = kLessThanEq -> <<">">>

\* JUMP_CONDITION
JUMP_CONDITION(sym) ==
    CASE sym = <<"=","=">> -> kEqual
      [] sym = <<"!","=">> -> kNotEqual
      [] sym = <<">">> -> kGreaterThan
      [] sym = <<"<">> -> kLessThan
      [] sym = <<">","=">> -> kGreaterThanEq
      [] sym = <<"<","=">> -> kLessThanEq


(***************************************************************************)
(* Python numbers.  float(s) of a literal is the rational it writes, kept  *)
(* as a reduced fraction [n, d]; the drawn literals and the results of the *)
(* modelled operations on them are floats that binary floating point holds *)
(* to within the shortest decimal that str() prints, so str() of a result  *)
(* is its decimal expansion.                                               *)
(***************************************************************************)
RECURSIVE Gcd(_, _)
Gcd(a, b) == IF b = 0 THEN a ELSE Gcd(b, a % b)

Abs(i) == IF i < 0 THEN 0 - i ELSE i

RECURSIVE Pow10(_)
Pow10(k) == IF k = 0 THEN 1 ELSE 10 * Pow10(k - 1)

\* the reduced fraction n/d, d > 0
Frac(n, d) ==
    LET g == Gcd(Abs(n), d)
    IN [n |-> n \div g, d |-> d \div g]

\* float(s) for s matching [0-9]+(\.[0-9]+)?
Float(s) ==
    LET p == SplitN(s, ".", 1)
        f == IF Len(p) = 2 THEN p[2] ELSE <<>>
    IN Frac(DigitsVal(p[1] \o f), Pow10(Len(f)))

FAdd(a, b) == Frac(a.n * b.d + b.n * a.d, a.d * b.d)
FSub(a, b) == Frac(a.n * b.d - b.n * a.d, a.d * b.d)
FMul(a, b) == Frac(a.n * b.n, a.d * b.d)
\* a / b for b > 0
FDiv(a, b) == Frac(a.n * b.d, a.d * b.n)
\* math.floor(a / b) for b > 0
FFloorDiv(a, b) == Frac((a.n * b.d) \div (a.d * b.n), 1)
FLess(a, b) == a.n * b.d < b.n * a.d
FIsInt(a) == a.d = 1

\* the number of decimals of a fraction whose expansion ends
Decimals(a) == CHOOSE k \in 0..6 : Pow10(k) % a.d = 0 /\ \A j \in 0..(k - 1) : Pow10(j) % a.d # 0

RECURSIVE ZeroPad(_, _)
ZeroPad(s, k) == IF Len(s) >= k THEN s ELSE ZeroPad(<<"0">> \o s, k)

\* str(x) of a float x that is not integral: sign, integer part, point,
\* decimals
FloatStr(a) ==
    LET k == Decimals(a)
        m == (Abs(a.n) * Pow10(k)) \div a.d
    IN (IF a.n < 0 THEN <<"-">> ELSE <<>>)
       \o NatStr(m \div Pow10(k)) \o <<".">> \o ZeroPad(NatStr(m % Pow10(k)), k)

(***************************************************************************)
(* PRECALC: the folding table.  A result is a float, a bool, an int, or    *)
(* the exception the host operation raises.                                *)
(***************************************************************************)
kAdd == <<"a","d","d">>
kMul == <<"m","u","l">>
kDiv == <<"d","i","v">>
kIdiv == <<"i","d","i","v">>
kMod == <<"m","o","d">>
kPow == <<"p","o","w">>
kLand == <<"l","a","n","d">>
kShl == <<"s","h","l">>
kShr == <<"s","h","r">>
kOr == <<"o","r">>
kAnd == <<"a","n","d">>
kXor == <<"x","o","r">>
kNot == <<"n","o","t">>
kMax == <<"m","a","x">>
kMin == <<"m","i","n">>
kAbs == <<"a","b","s">>
kLog == <<"l","o","g">>
kLog10 == <<"l","o","g","1","0">>
kFloor == <<"f","l","o","o","r">>
kCeil == <<"c","e","i","l">>
kSqrt == <<"s","q","r","t">>

\* the keys of PRECALC
PRECALC_OPS ==
    {kAdd, kSub, kMul, kDiv, kIdiv, kMod, kPow, kLand, kLessThan, kLessThanEq,
     kGreaterThan, kGreaterThanEq, kStrictEqual, kShl, kShr, kOr, kAnd, kXor, kNot,
     kMax, kMin, kAbs, kLog, kLog10, kFloor, kCeil, kSqrt}

FloatV(f) == [kind |-> "float", v |-> f]
BoolV(b) == [kind |-> "bool", v |-> b]
IntV(i) == [kind |-> "int", v |-> i]
Raise(exc) == [kind |-> "raise", v |-> exc]

\* PRECALC[op](a, b) on two floats.  pow, log, log10 and sqrt are keys of
\* the table as well; their results are not decimals (2 ** 2.5) and they
\* are not evaluated here.
PRECALC(op, a, b) ==
    CASE op = kAdd -> FloatV(FAdd(a, b))
      [] op = kSub -> FloatV(FSub(a, b))
      [] op = kMul -> FloatV(FMul(a, b))
      [] op = kDiv -> IF b.n = 0 THEN Raise("ZeroDivisionError") ELSE FloatV(FDiv(a, b))
      [] op = kIdiv -> IF b.n = 0 THEN Raise("ZeroDivisionError") ELSE FloatV(FFloorDiv(a, b))
      [] op = kMod -> IF b.n = 0 THEN Raise("ZeroDivisionError")
                      ELSE FloatV(FSub(a, FMul(b, FFloorDiv(a, b))))
      [] op = kLand -> FloatV(IF a.n = 0 THEN a ELSE b)
      [] op = kLessThan -> BoolV(FLess(a, b))
      [] op = kLessThanEq -> BoolV(~FLess(b, a))
      [] op = kGreaterThan -> BoolV(FLess(b, a))
      [] op = kGreaterThanEq -> BoolV(~FLess(a, b))
      [] op = kStrictEqual -> BoolV(a = b)
      [] op \in {kShl, kShr, kOr, kAnd, kXor, kNot} -> Raise("TypeError")
      [] op = kMax -> FloatV(IF FLess(a, b) THEN b ELSE a)
      [] op = kMin -> FloatV(IF FLess(b, a) THEN b ELSE a)
      [] op = kAbs -> FloatV(Frac(Abs(a.n), a.d))
      [] op = kFloor -> IntV(a.n \div a.d)
      [] op = kCeil -> IntV(0 - ((0 - a.n) \div a.d))

\* int(x)
ToInt(r) ==
    CASE r.kind = "float" -> IF r.v.n >= 0 THEN r.v.n \div r.v.d ELSE 0 - ((0 - r.v.n) \div r.v.d)
      [] r.kind = "bool" -> IF r.v THEN 1 ELSE 0
      [] r.kind = "int" -> r.v

\* result == int(result)
EqualsItsInt(r) ==
    CASE r.kind = "float" -> FIsInt(r.v)
      [] r.kind = "bool" -> TRUE
      [] r.kind = "int" -> TRUE

\* f"{result}" after   if result == int(result): result = int(result)
ResultStr(r) == IF EqualsItsInt(r) THEN IntStr(ToInt(r)) ELSE FloatStr(r.v)


(***************************************************************************)
(* The optimizer passes.  Each is a function from the text (and, for the   *)
(* first, the window n_lines and the temporary counter self.tmpv) to the   *)
(* pair (text, found), or to the exception that ends it.  A pass walks the *)
(* lines top to bottom over the list lns, which it rewrites ahead of the   *)
(* line it is at; st holds lns, the text tmp built so far, and found.      *)
(***************************************************************************)
Start(code) == [lns |-> SplitLines(code), tmp |-> <<>>, found |-> FALSE, exc |-> "none"]

\* tmp += ln + "\n"
Keep(st, i) == [st EXCEPT !.tmp = @ \o st.lns[i] \o <<NL>>]

\* lns[j] = ln; found = f; continue
Fuse(st, j, ln, f) == [st EXCEPT !.lns[j] = ln, !.found = f]

Thrown(st, exc) == [st EXCEPT !.exc = exc]

\* the value a pass returns
Returned(st) == [text |-> st.tmp, found |-> st.found, exc |-> st.exc]

\* len(re.findall(name + "\\D", code)): the occurrences of name that a
\* character other than a digit follows, that character consumed
RECURSIVE CountNotDigitAfter(_, _, _)
CountNotDigitAfter(code, name, i) ==
    LET p == FindFrom(code, name, i)
    IN IF p = 0 THEN 0
       ELSE IF p + Len(name) <= Len(code) /\ code[p + Len(name)] \notin DigitSet
            THEN 1 + CountNotDigitAfter(code, name, p + Len(name) + 1)
            ELSE CountNotDigitAfter(code, name, p + 1)

\* the dict uses of _single_tmp_optimize, as the set of its keys
UsesKeys(code, tmpv) ==
    {name \in {kTmp \o NatStr(i) : i \in 1..tmpv} : CountNotDigitAfter(code, name, 1) > 0}

\* one line of _single_tmp_optimize
SingleTmpLine(st, i, n_lines, code, tmpv) ==
    LET ln == st.lns[i]
        j == i + n_lines
        \* i < len(lns) - n_lines, with i counted from 0
        inside == i - 1 < Len(st.lns) - n_lines
        uses(name) == CountNotDigitAfter(code, name, 1)
        known(name) == name \in UsesKeys(code, tmpv)
    IN IF ReTMPS(ln) THEN
            LET spl == SplitN(ln, SP, 2)
                name == spl[2]
                val == spl[3]
            IN IF ~inside THEN Keep(st, i)
               ELSE IF ~known(name) THEN Thrown(st, "KeyError")
               ELSE IF uses(name) = 2 /\ Contains(st.lns[j], name)
                    THEN Fuse(st, j, Replace(st.lns[j], name, val), TRUE)
                    ELSE Keep(st, i)
       ELSE IF ReTMPSE(ln) THEN
            LET spl == SplitN(ln, SP, 3)
                name == spl[2]
            IN IF ~inside THEN Keep(st, i)
               ELSE IF ~known(name) THEN Thrown(st, "KeyError")
               ELSE IF uses(name) = 2 /\ ReTMPSA(st.lns[j])
                    THEN LET spl_ == SplitN(st.lns[j], SP, 2)
                         IN IF name = spl_[3]
                            THEN Fuse(st, j, Ln(<<kSensor, spl_[2], spl[3], spl[4]>>), TRUE)
                            ELSE Keep(st, i)
                    ELSE Keep(st, i)
       ELSE IF ReTCOMP(ln) THEN
            LET spl == SplitN(ln, SP, 4)
                cond == spl[2]
                name == spl[3]
                op1 == spl[4]
                op2 == spl[5]
            IN IF ~inside THEN Keep(st, i)
               ELSE IF ~known(name) THEN Thrown(st, "KeyError")
               ELSE IF uses(name) = 2 /\ ReTJUMP(st.lns[j])
                    THEN LET spl_ == SplitN(st.lns[j], SP, 1)
                         IN IF Tail(spl_[2]) = spl[3] /\ cond \in CompareOps
                            THEN Fuse(st, j, Ln(<<spl_[1], op1, JUMP_CONDITIONS_REPLACE(cond), op2>>),
                                      st.found)
                            ELSE Keep(st, i)
                    ELSE Keep(st, i)
       ELSE Keep(st, i)

RECURSIVE SingleTmpLoop(_, _, _, _, _)
SingleTmpLoop(st, i, n_lines, code, tmpv) ==
    IF i > Len(st.lns) \/ st.exc # "none" THEN st
    ELSE SingleTmpLoop(SingleTmpLine(st, i, n_lines, code, tmpv), i + 1, n_lines, code, tmpv)

\* Generator._single_tmp_optimize(code, n_lines)
SingleTmpOptimize(code, n_lines, tmpv) ==
    Returned(SingleTmpLoop(Start(code), 1, n_lines, code, tmpv))

\* one line of _forward_use_optimize
ForwardUseLine(st, i, n_lines) ==
    LET ln == st.lns[i]
        j == i + n_lines
    IN IF ReTMPS(ln) /\ i - 1 < Len(st.lns) - n_lines /\ ReTMPOP(st.lns[j])
       THEN LET spl == SplitN(ln, SP, 2)
                spl2 == SplitN(st.lns[j], SP, 4)
            IN IF spl2[3] = spl[2]
               THEN Fuse(st, j, Ln(<<spl2[1], spl2[2], spl2[3], spl[3], spl2[5]>>), TRUE)
               ELSE Keep(st, i)
       ELSE Keep(st, i)

RECURSIVE ForwardUseLoop(_, _, _)
ForwardUseLoop(st, i, n_lines) ==
    IF i > Len(st.lns) THEN st ELSE ForwardUseLoop(ForwardUseLine(st, i, n_lines), i + 1, n_lines)

\* Generator._forward_use_optimize(code, n_lines)
ForwardUseOptimize(code, n_lines) == Returned(ForwardUseLoop(Start(code), 1, n_lines))

\* one line of _precalc_optimize
PrecalcLine(st, i) ==
    LET ln == st.lns[i]
    IN IF ReMCALC(ln)
       THEN LET spl == SplitN(ln, SP, 4)
                op == spl[2]
                name == spl[3]
                n1 == Float(spl[4])
                n2 == Float(spl[5])
            IN IF op \in PRECALC_OPS
               THEN LET result == PRECALC(op, n1, n2)
                    IN IF result.kind = "raise" THEN Thrown(st, result.v)
                       ELSE Keep(Fuse(st, i, Ln(<<kSet, name, ResultStr(result)>>), TRUE), i)
               ELSE Keep(st, i)
       ELSE Keep(st, i)

RECURSIVE PrecalcLoop(_, _)
PrecalcLoop(st, i) ==
    IF i > Len(st.lns) \/ st.exc # "none" THEN st ELSE PrecalcLoop(PrecalcLine(st, i), i + 1)

\* Generator._precalc_optimize(code)
PrecalcOptimize(code) == Returned(PrecalcLoop(Start(code), 1))

\* the destination of a line that VARA matches
VaraName(ln) ==
    IF StartsWith(ln, kSet) THEN SplitN(ln, SP, 2)[2]
    ELSE IF StartsWith(ln, kOp) THEN SplitN(ln, SP, 4)[3]
    ELSE <<>>

\* one line of _unused_optimize: uses = len(re.findall(name, code))
UnusedLine(st, i, code) ==
    LET ln == st.lns[i]
    IN IF ReVARA(ln) /\ Count(code, VaraName(ln)) <= 1 THEN st ELSE Keep(st, i)

RECURSIVE UnusedLoop(_, _, _)
UnusedLoop(st, i, code) ==
    IF i > Len(st.lns) THEN st ELSE UnusedLoop(UnusedLine(st, i, code), i + 1, code)

\* Generator._unused_optimize(code)
UnusedOptimize(code) == Returned(UnusedLoop(Start(code), 1, code))

\* one line of _negative_optimize
NegativeLine(st, i) ==
    LET ln == st.lns[i]
    IN IF ReTMPS(ln) /\ i - 1 < Len(st.lns) - 1
       THEN LET spl == SplitN(ln, SP, 2)
                name == spl[2]
                val == spl[3]
            IN IF st.lns[i + 1] = Ln(<<kOp, kSub, name, <<"0">>, name>>) /\ ReNUM(val)
               THEN Fuse(st, i + 1, Ln(<<kSet, name, <<"-">> \o val>>), st.found)
               ELSE Keep(st, i)
       ELSE Keep(st, i)

RECURSIVE NegativeLoop(_, _)
NegativeLoop(st, i) ==
    IF i > Len(st.lns) THEN st ELSE NegativeLoop(NegativeLine(st, i), i + 1)

\* Generator._negative_optimize(code)
NegativeOptimize(code) == Returned(NegativeLoop(Start(code), 1))


(***************************************************************************)
(* Generator.postprocess.                                                  *)
(***************************************************************************)
\* labels[name] = v
Bind(labels, name, v) ==
    [k \in DOMAIN labels \cup {name} |-> IF k = name THEN v ELSE labels[k]]

\* an empty dict
EmptyDict == [k \in {} |-> 0]

\* the first loop: native lines lose their dot, a label records
\* i - lc and is dropped, a set of a variable to itself is dropped
RECURSIVE FindLabels(_, _, _, _, _)
FindLabels(lns, i, lc, labels, tmp) ==
    IF i > Len(lns) THEN [tmp |-> tmp, labels |-> labels, exc |-> "none"]
    ELSE LET ln == IF StartsWith(lns[i], <<".">>) THEN Tail(lns[i]) ELSE lns[i]
             spl == Split(ln)
         IN IF ReLABEL(ln)
            THEN FindLabels(lns, i + 1, lc + 1, Bind(labels, Tail(ln), (i - 1) - lc), tmp)
            ELSE IF spl # <<>> /\ spl[1] = kSet
                 THEN IF Len(spl) < 3 THEN [tmp |-> tmp, labels |-> labels, exc |-> "IndexError"]
                      ELSE IF spl[2] = spl[3] THEN FindLabels(lns, i + 1, lc, labels, tmp)
                      ELSE FindLabels(lns, i + 1, lc, labels, tmp \o ln \o <<NL>>)
                 ELSE FindLabels(lns, i + 1, lc, labels, tmp \o ln \o <<NL>>)

\* f"jump {labels[name]} {cond} {a} {b}"
JumpLine(target, cond, a, b) == Ln(<<kJump, IntStr(target), cond, a, b>>)

\* one line of the second loop: the line it writes, or <<>> with the
\* error of gen_error
ResolveLine(ln, labels) ==
    IF ReJUMP(ln)
    THEN LET name == Tail(ln)
         IN IF name \in DOMAIN labels
            THEN [ln |-> JumpLine(labels[name], kAlways, <<"_">>, kTrue), exc |-> "none"]
            ELSE [ln |-> <<>>, exc |-> "UnknownLabel"]
    ELSE IF ReCJMP(ln)
    THEN LET spl == Split(ln)
             name == Tail(spl[1])
             invert == StartsWith(spl[2], <<"!">>)
             cvar == IF invert THEN Tail(spl[2]) ELSE spl[2]
         IN IF name \in DOMAIN labels
            THEN [ln |-> JumpLine(labels[name], IF invert THEN kNotEqual ELSE kEqual, cvar, kTrue),
                  exc |-> "none"]
            ELSE [ln |-> <<>>, exc |-> "UnknownLabel"]
    ELSE IF ReEJMP(ln)
    THEN LET spl == Split(ln)
             name == Tail(spl[1])
         IN IF name \in DOMAIN labels
            THEN [ln |-> JumpLine(labels[name], JUMP_CONDITION(spl[3]), spl[2], spl[4]),
                  exc |-> "none"]
            ELSE [ln |-> <<>>, exc |-> "UnknownLabel"]
    ELSE [ln |-> ln, exc |-> "none"]

\* the second loop
RECURSIVE ResolveJumps(_, _, _, _)
ResolveJumps(lns, i, labels, tmp2) ==
    IF i > Len(lns) THEN [text |-> tmp2, exc |-> "none"]
    ELSE LET r == ResolveLine(lns[i], labels)
         IN IF r.exc # "none" THEN [text |-> <<>>, exc |-> r.exc]
            ELSE ResolveJumps(lns, i + 1, labels, tmp2 \o r.ln \o <<NL>>)

\* one line of the third loop: a native jump to a line at or past the
\* line count goes to line 0
MoveJumpLine(ln, lnc) ==
    IF ReMJUMP(ln)
    THEN LET spl == SplitN(ln, SP, 4)
         IN IF DigitsVal(spl[2]) >= lnc THEN Ln(<<spl[1], <<"0">>, spl[3], spl[4], spl[5]>>) ELSE ln
    ELSE ln

\* the third loop
MoveJumps(tmp2) ==
    LET lnc == Len(SplitLines(Strip(tmp2)))
        lns == SplitLines(tmp2)
    IN Unlines([i \in 1..Len(lns) |-> MoveJumpLine(lns[i], lnc)])

kJump0 == kJump \o <<SP, "0">>

\* a last step that removes the last line only when it is jump 0 always
DropLastAlways(tmp, lns) ==
    IF lns = <<>> THEN [text |-> <<>>, exc |-> "IndexError"]
    ELSE IF StartsWith(lns[Len(lns)], kJump0 \o <<SP>> \o kAlways)
         THEN [text |-> Strip(Join(SubSeq(lns, 1, Len(lns) - 1), <<NL>>)), exc |-> "none"]
         ELSE [text |-> Strip(tmp), exc |-> "none"]

\* the last step on the lines lns of tmp: the last line goes when it starts
\* with "jump 0"
DropLast(tmp, lns) ==
    IF lns = <<>> THEN [text |-> <<>>, exc |-> "IndexError"]
    ELSE IF StartsWith(lns[Len(lns)], kJump0)
         THEN [text |-> Strip(Join(SubSeq(lns, 1, Len(lns) - 1), <<NL>>)), exc |-> "none"]
         ELSE [text |-> Strip(tmp), exc |-> "none"]

DropLastJump(tmp) == DropLast(tmp, SplitLines(tmp))

\* what postprocess gives when an exception ends it
PostRaised(e) == [text |-> <<>>, resolved |-> <<>>, exc |-> e]

\* the text c before the last step, and what the last step d made of it
PostReturned(c, d) == [text |-> d.text, resolved |-> c, exc |-> d.exc]

PostLast(c) == PostReturned(c, DropLastJump(c))

\* after the jumps were resolved (b)
PostMove(b) == IF b.exc # "none" THEN PostRaised(b.exc) ELSE PostLast(MoveJumps(b.text))

\* after the labels were found (a)
PostResolve(a) ==
    IF a.exc # "none" THEN PostRaised(a.exc)
    ELSE PostMove(ResolveJumps(SplitLines(a.tmp), 1, a.labels, <<>>))

\* Generator.postprocess(code): the text returned, the text as it stood
\* before the last step, and the exception if one ends the call
Postprocess(code) ==
    IF Strip(code) = <<>> THEN [text |-> code, resolved |-> code, exc |-> "none"]
    ELSE PostResolve(FindLabels(SplitLines(code), 1, 0, EmptyDict, <<>>))


(***************************************************************************)
(* Generator.generate: postprocess(optimize(code, optimize_options)).      *)
(* The state is the text tmp of optimize as it goes through the schedule   *)
(* of passes, one action per call of a pass, and then through postprocess. *)
(***************************************************************************)
VARIABLES
    code,       \* the text: the generated code, then tmp of optimize
    tmpv,       \* self.tmpv, the number of temporaries handed out
    options,    \* optimize_options: enable, unused
    pc,         \* the place in optimize's schedule; "post"; "done"; "raised"
    outer,      \* the round of the enclosing  for _ in range(10)
    inner,      \* the turn of the loop that calls the pass
    found,      \* the flag the last pass returned
    last,       \* the last pass called, and its n_lines
    prev,       \* the text the last pass was given
    resolved,   \* postprocess's text before its last step
    output,     \* the text generate returns
    exc,        \* the exception that ended the run, or "none"
    prog,       \* Linker.link's argument: the instructions
    linked,     \* what Linker.link returned: its label table and its text
    lpc         \* "call" before Linker.link runs, "returned" after; "idle"

\* the generation of typed nodes (node_rewrite.py)
VARIABLES
    scopes,     \* Scopes: the stack of frames, the innermost last
    gtmp,       \* Gen: the number of temporaries handed out
    nlast,      \* the node whose generate() was called last
    nins,       \* the instructions that call returned
    nexc,       \* the error that call raised, or NoError
    npc,        \* "gen" while nodes are generated; "raised"; "idle"
    ncount      \* the number of nodes generated so far

\* the generation of the control constructs (generator.py)
VARIABLES
    cnodes,     \* AST.code: the nodes of the program
    clines,     \* the lines _code_node_join returned
    cexc,       \* the error it raised, or "none"
    cpc         \* "join" before the call, "joined" after; "raised"; "idle"

\* a generated range loop on the processor
VARIABLES
    rnode,      \* the RangeNode
    rins,       \* the instructions its generate() returned
    rmem,       \* the variables of the processor
    rcounter,   \* @counter: the place of the next instruction in rins
    rbody,      \* how often the body was entered
    rpc         \* "gen" before generate(), "run", "halted"; "raised"; "idle"

gvars == <<code, tmpv, options, pc, outer, inner, found, last, prev, resolved, output, exc>>
nvars == <<scopes, gtmp, nlast, nins, nexc, npc, ncount>>
cvars == <<cnodes, clines, cexc, cpc>>
xvars == <<rnode, rins, rmem, rcounter, rbody, rpc>>
lvars == <<prog, linked, lpc, nvars, cvars, xvars>>
vars == <<gvars, lvars>>

\* the loop limits of optimize
Rounds == 10
SingleTries == 100
MaxWindow == 10
NegativeTries == 10
ForwardTries == 100
Rounds2 == 10
UnusedTries == 100

NoPass == [pass |-> "none", n |-> 0]

\* where optimize goes when a loop of its schedule ends
AfterSecondRound == IF outer < Rounds2 - 1 THEN "C1" ELSE IF options.unused THEN "D" ELSE "post"

\* a pass raised: the exception leaves optimize and generate
Raises(e, pass, n) ==
    /\ exc' = e
    /\ pc' = "raised"
    /\ last' = [pass |-> pass, n |-> n]
    /\ prev' = code
    /\ UNCHANGED <<code, tmpv, options, outer, inner, found, resolved, output, lvars>>

\* a pass returned (text, found); optimize goes on at next_pc
Returns(r, pass, n, next_pc, next_outer, next_inner) ==
    /\ code' = r.text
    /\ found' = r.found
    /\ last' = [pass |-> pass, n |-> n]
    /\ prev' = code
    /\ pc' = next_pc
    /\ outer' = next_outer
    /\ inner' = next_inner
    /\ UNCHANGED <<tmpv, options, resolved, output, exc, lvars>>

\* the n_lines the schedule gives _single_tmp_optimize
Window == IF pc = "A1" THEN 1 ELSE inner

\* tmp, found = self._single_tmp_optimize(tmp, n): in the first loop of a
\* round (n = 1, until nothing is found), and in the window loops
SingleTmp ==
    /\ pc \in {"A1", "A2", "C2"}
    /\ \E r \in {SingleTmpOptimize(code, Window, tmpv)} :
          IF r.exc # "none" THEN Raises(r.exc, "single", Window)
          ELSE IF pc = "A1"
               THEN IF ~r.found \/ inner = SingleTries
                    THEN Returns(r, "single", 1, "A2", outer, 1)
                    ELSE Returns(r, "single", 1, "A1", outer, inner + 1)
          ELSE IF inner < MaxWindow THEN Returns(r, "single", inner, pc, outer, inner + 1)
          ELSE Returns(r, "single", inner, IF pc = "A2" THEN "A3" ELSE "C3", outer, 1)

\* tmp, found = self._negative_optimize(tmp)
Negative ==
    /\ pc = "A3"
    /\ \E r \in {NegativeOptimize(code)} :
          IF inner < NegativeTries THEN Returns(r, "negative", 0, "A3", outer, inner + 1)
          ELSE IF outer < Rounds - 1 THEN Returns(r, "negative", 0, "A1", outer + 1, 1)
          ELSE Returns(r, "negative", 0, "B", 0, 1)

\* tmp, found = self._forward_use_optimize(tmp, i), until nothing is found
ForwardUse ==
    /\ pc \in {"B", "C3"}
    /\ \E r \in {ForwardUseOptimize(code, inner)} :
          IF r.found /\ inner < ForwardTries
          THEN Returns(r, "forward", inner, pc, outer, inner + 1)
          ELSE IF pc = "B" THEN Returns(r, "forward", inner, "C1", 0, 1)
          ELSE Returns(r, "forward", inner, AfterSecondRound,
                       IF outer < Rounds2 - 1 THEN outer + 1 ELSE 0, 1)

\* tmp, found = self._precalc_optimize(tmp)
Precalc ==
    /\ pc = "C1"
    /\ \E r \in {PrecalcOptimize(code)} :
          IF r.exc # "none" THEN Raises(r.exc, "precalc", 0)
          ELSE Returns(r, "precalc", 0, "C2", outer, 1)

\* tmp, found = self._unused_optimize(tmp), until nothing is found
Unused ==
    /\ pc = "D"
    /\ \E r \in {UnusedOptimize(code)} :
          IF r.found /\ inner < UnusedTries
          THEN Returns(r, "unused", 0, "D", outer, inner + 1)
          ELSE Returns(r, "unused", 0, "post", 0, 1)

\* return self.postprocess(...)
Post ==
    /\ pc = "post"
    /\ \E r \in {Postprocess(code)} :
          /\ exc' = r.exc
          /\ pc' = IF r.exc = "none" THEN "done" ELSE "raised"
          /\ output' = r.text
          /\ resolved' = r.resolved
          /\ last' = [pass |-> "postprocess", n |-> 0]
          /\ prev' = code
          /\ UNCHANGED <<code, tmpv, options, outer, inner, found, lvars>>


(***************************************************************************)
(* The code generate hands to optimize: Generator._generate on the nodes   *)
(* of a small program, joined by _code_join.  A generated fragment is its  *)
(* lines, the variable that holds its value, and the counters self.tmpv    *)
(* and self.tmpl after it.                                                 *)
(***************************************************************************)
kPrint == <<"p","r","i","n","t">>

\* get_tmp_var and get_tmp_label, after the counter went up to k
TmpVar(k) == kTmp \o NatStr(k)
TmpLabel(k) == kMpp \o NatStr(k)

ValueNode(value) == [node |-> "Value", value |-> value]
FactorNode(value) == [node |-> "Factor", value |-> value]
BinaryNode(op, left, right) == [node |-> "Binary", op |-> op, left |-> left, right |-> right]
AssignmentNode(left, right) == [node |-> "Assignment", left |-> left, right |-> right]
PrintCall(arg) == [node |-> "Call", arg |-> arg]
WhileNode(condition) == [node |-> "While", condition |-> condition]
IfNode(condition, body) == [node |-> "If", condition |-> condition, body |-> body]

\* a ValueNode: set {var} {value}
GenValue(e, c) ==
    [lines |-> <<Ln(<<kSet, TmpVar(c.tmpv + 1), e.value>>)>>, var |-> TmpVar(c.tmpv + 1),
     tmpv |-> c.tmpv + 1, tmpl |-> c.tmpl]

\* a FactorNode with a minus sign: the value, then op sub {var} 0 {var}
NegateOperand(v) ==
    [v EXCEPT !.lines = @ \o <<Ln(<<kOp, kSub, v.var, <<"0">>, v.var>>)>>]

GenFactor(e, c) == NegateOperand(GenValue(ValueNode(e.value), c))

GenOperand(e, c) == IF e.node = "Factor" THEN GenFactor(e, c) ELSE GenValue(e, c)

\* an expression of two operands: {tmp}\n{tmp2}\nop {op} {var} {var} {var2}
JoinOperands(op, l, r) ==
    [r EXCEPT !.lines = l.lines \o r.lines \o <<Ln(<<kOp, op, l.var, l.var, r.var>>)>>,
              !.var = l.var]

GenRight(e, l) == JoinOperands(e.op, l, GenOperand(e.right, l))

GenBinary(e, c) == GenRight(e, GenOperand(e.left, c))

GenExpression(e, c) == IF e.node = "Binary" THEN GenBinary(e, c) ELSE GenOperand(e, c)

\* the expression a statement evaluates first
FirstExpression(s) ==
    IF s.node = "Assignment" THEN s.right ELSE IF s.node = "Call" THEN s.arg ELSE s.condition

\* <{l_v}\n{tmp2}\n>{l_e} !{var}\n  (no body)  \n>{l_v}\n<{l_e}
EmitWhile(e, l_v, l_e) ==
    [e EXCEPT !.lines = <<<<"<">> \o l_v>> \o @
                           \o <<Ln(<<<<">">> \o l_e, <<"!">> \o e.var>>),
                                <<">">> \o l_v, <<"<">> \o l_e>>,
              !.tmpl = @ + 2]

\* the lines of a statement that holds no statement, after its expression e
EmitSimple(s, e) ==
    CASE s.node = "Assignment" ->
            \* {tmp}\nset {node.left} {var}
            [e EXCEPT !.lines = @ \o <<Ln(<<kSet, s.left, e.var>>)>>]
      [] s.node = "Call" ->
            \* a native call: {tmp}{node.function} {params}
            [e EXCEPT !.lines = @ \o <<Ln(<<kPrint, e.var>>)>>]
      [] s.node = "While" ->
            EmitWhile(e, TmpLabel(e.tmpl + 1), TmpLabel(e.tmpl + 2))

GenSimple(s, c) == EmitSimple(s, GenExpression(FirstExpression(s), c))

\* an if without else: {tmp2}\n>{l_e} !{var}\n  body  \n<{l_e}
EmitIf(e, l_e, b) ==
    [b EXCEPT !.lines = e.lines \o <<Ln(<<<<">">> \o l_e, <<"!">> \o e.var>>)>>
                           \o @ \o <<<<"<">> \o l_e>>]

GenBody(s, e) == EmitIf(e, TmpLabel(e.tmpl + 1), GenSimple(s.body, [e EXCEPT !.tmpl = @ + 1]))

GenIf(s, c) == GenBody(s, GenExpression(s.condition, c))

GenStatement(s, c) == IF s.node = "If" THEN GenIf(s, c) ELSE GenSimple(s, c)

\* _code_join over the statements of a program
PrependLines(g, rest) == [rest EXCEPT !.lines = g.lines \o @]

RECURSIVE GenStatements(_, _)
GenRest(ss, g) == PrependLines(g, GenStatements(Tail(ss), g))

GenStatements(ss, c) ==
    IF ss = <<>> THEN [lines |-> <<>>, tmpv |-> c.tmpv, tmpl |-> c.tmpl]
    ELSE GenRest(ss, GenStatement(Head(ss), c))

\* the text and the counter after generate's _code_node_join
Generated(g) == [code |-> Join(g.lines, <<NL>>), tmpv |-> g.tmpv]

Generate(ss) == Generated(GenStatements(ss, [tmpv |-> 0, tmpl |-> 0]))


(***************************************************************************)
(* Linker.link.  An instruction of the program is a label, a macro or a    *)
(* real instruction with its text str(ins).                                *)
(***************************************************************************)
MppInstructionLabel(name) == [kind |-> "label", name |-> name]
MppInstructionMacro(name, value) == [kind |-> "macro", name |-> name, value |-> value]
Instruction(text) == [kind |-> "ins", text |-> text]

kStart == <<"s","t","a","r","t">>
kHerePtr == <<"h","e","r","e","_","p","t","r">>

\* a dict lookup that never finds the word
GetKept(d, word) == word

\* d.get(word, word) on a dict kept as a function
Get(d, word) == IF word \in DOMAIN d THEN d[word] ELSE word

\* Expression.exec on the text after the colon, with here_ptr, labels and
\* macros as its variables: the expression here_ptr is the line pointer
ExpressionExec(expr, here_ptr, labels, macros) ==
    CASE expr = kHerePtr -> NatStr(here_ptr)

\* the first loop of link: the labels, the macros, and the instructions
\* with the macros known so far written into them
RECURSIVE LinkScan(_, _, _, _, _)
LinkScan(insns, i, labels, macros, instrs) ==
    IF i > Len(insns) THEN [labels |-> labels, macros |-> macros, instrs |-> instrs]
    ELSE LET ins == insns[i]
         IN IF ins.kind = "label"
            THEN LinkScan(insns, i + 1, Bind(labels, ins.name, Len(instrs)), macros, instrs)
            ELSE IF ins.kind = "macro"
            THEN LET val == IF StartsWith(ins.value, <<":">>)
                            THEN ExpressionExec(Tail(ins.value), Len(instrs), labels, macros)
                            ELSE ins.value
                 IN LinkScan(insns, i + 1, labels, Bind(macros, ins.name, val), instrs)
            ELSE IF ins.text = <<>>
            THEN LinkScan(insns, i + 1, labels, macros, instrs)
            ELSE LET w == Split(ins.text)
                 IN LinkScan(insns, i + 1, labels, macros,
                             Append(instrs, Join([k \in 1..Len(w) |-> Get(macros, w[k])], <<SP>>)))

\* a linker that leaves the references to labels as they are
LabelWordKept(labels, word) == word

\* str(labels.get(word, word))
LabelWord(labels, word) == IF word \in DOMAIN labels THEN NatStr(labels[word]) ELSE word

\* " ".join(str(labels.get(word, word)) for word in line.split())
LinkLine(labels, ln) ==
    LET w == Split(ln)
    IN Join([k \in 1..Len(w) |-> LabelWord(labels, w[k])], <<SP>>)

\* Linker.link(code): the label table and the text returned
Link(insns) ==
    LET s == LinkScan(insns, 1, Bind(EmptyDict, kStart, 0), EmptyDict, <<>>)
    IN [labels |-> s.labels,
        text |-> Strip(Join([k \in 1..Len(s.instrs) |-> LinkLine(s.labels, s.instrs[k])], <<NL>>))]


(***************************************************************************)
(* The bounds of the model and the inputs drawn within them.               *)
(***************************************************************************)
\* the statements of a generated program
MaxStmts == 2
\* the lines of a text a pass is applied to
MaxLines == 3
\* the largest n_lines a pass is applied with
MaxWindow1 == 2
\* the integer literals are 0..MaxLit
MaxLit == 3
\* self.tmpv when a pass is applied to a drawn text
DrawnTmpv == 2
\* the instructions of a program given to the linker
MaxItems == 4

\* all sequences of 1..n elements of a set
SeqsUpTo(set, n) == UNION {[1..k -> set] : k \in 1..n}

vX == <<"x">>
vY == <<"y">>
vA == <<"a">>
vB == <<"b">>
vT == <<"t">>
vX2 == <<"x","2">>
n0 == <<"0">>
n1 == <<"1">>
n2 == <<"2">>
n3 == <<"3">>
n5 == <<"5">>
n25 == <<"2",".","5">>

\* the statements the generated programs are made of:
\*   x = 5;  a = 1;  b = a;  x = 2 + 3;  x = 1 / 0;  print(x2);
\*   while (x < 3) {}  and  if (x < -1) { print(x) }
Statements ==
    {AssignmentNode(vX, ValueNode(n5)),
     AssignmentNode(vA, ValueNode(n1)),
     AssignmentNode(vB, ValueNode(vA)),
     AssignmentNode(vX, BinaryNode(kAdd, ValueNode(n2), ValueNode(n3))),
     AssignmentNode(vX, BinaryNode(kDiv, ValueNode(n1), ValueNode(n0))),
     PrintCall(ValueNode(vX2)),
     WhileNode(BinaryNode(kLessThan, ValueNode(vX), ValueNode(n3))),
     IfNode(BinaryNode(kLessThan, ValueNode(vX), FactorNode(n1)), PrintCall(ValueNode(vX)))}

Programs == SeqsUpTo(Statements, MaxStmts)

\* optimize_options: the default, and optimization switched off
OptionSets == {[enable |-> TRUE, unused |-> TRUE], [enable |-> FALSE, unused |-> TRUE]}

\* no node is generated
IdleNodes ==
    /\ scopes = <<>>
    /\ gtmp = 0
    /\ nlast = [node |-> "none"]
    /\ nins = <<>>
    /\ nexc = [kind |-> "none"]
    /\ npc = "idle"
    /\ ncount = 0

\* no program is joined, and none runs
IdleControl == cnodes = <<>> /\ clines = <<>> /\ cexc = "none" /\ cpc = "idle"

IdleRun ==
    /\ rnode = [node |-> "none"]
    /\ rins = <<>>
    /\ rmem = <<>>
    /\ rcounter = 0
    /\ rbody = 0
    /\ rpc = "idle"

IdleLinker ==
    /\ prog = <<>> /\ linked = [labels |-> EmptyDict, text |-> <<>>] /\ lpc = "idle"
    /\ IdleNodes
    /\ IdleControl
    /\ IdleRun

\* generate(node, optimize_options) after _code_node_join: optimize starts
\* its schedule, or returns the code as it is when not enabled
Init ==
    /\ \E g \in {Generate(p) : p \in Programs} : code = g.code /\ tmpv = g.tmpv
    /\ options \in OptionSets
    /\ pc = IF options.enable THEN "A1" ELSE "post"
    /\ outer = 0
    /\ inner = 1
    /\ found = FALSE
    /\ last = NoPass
    /\ prev = <<>>
    /\ resolved = <<>>
    /\ output = <<>>
    /\ exc = "none"
    /\ IdleLinker

Next == SingleTmp \/ Negative \/ ForwardUse \/ Precalc \/ Unused \/ Post

Spec == Init /\ [][Next]_vars


(***************************************************************************)
(* The passes as functions of a text.  SpecPass draws a text of a few      *)
(* lines, with and without a line feed at its end, and applies one pass    *)
(* or postprocess to it once.                                              *)
(***************************************************************************)
kL == <<"L">>
kM == <<"M">>
kGe == <<">","=">>
kNeg1 == <<"-","1">>

\* lines about temporaries
TmpLines ==
    {Ln(<<kSet, TmpVar(1), n5>>), Ln(<<kSet, vX, TmpVar(1)>>), Ln(<<kSet, vY, TmpVar(1)>>),
     Ln(<<kSet, TmpVar(2), n1>>), Ln(<<kOp, kSub, TmpVar(2), n0, TmpVar(2)>>),
     Ln(<<kOp, kAdd, vX, TmpVar(2), n1>>), Ln(<<kOp, kAdd, TmpVar(1), vX, n1>>),
     Ln(<<kSet, vY, TmpVar(12)>>)}

\* lines that store to and read user variables
StoreLines ==
    {Ln(<<kSet, vX, n1>>), Ln(<<kPrint, vX2>>), Ln(<<kSet, vA, n1>>), Ln(<<kSet, vB, vA>>),
     Ln(<<kPrint, vX>>)}

\* label definitions and the forms of jump, with one label never defined,
\* an assignment and the assignment of a variable to itself
JumpLines ==
    {<<"<">> \o kL, <<">">> \o kL, Ln(<<<<">">> \o kL, <<"!">> \o vX>>),
     Ln(<<<<">">> \o kL, vX, kGe, kNeg1>>), <<">">> \o kM, Ln(<<kSet, vX, n1>>),
     Ln(<<kSet, vX, vX>>)}

\* the opcodes of the table whose results are decimals
FoldOps == PRECALC_OPS \ {kPow, kLog, kLog10, kSqrt}

\* the literals: 0..MaxLit and 2.5
Literals == {NatStr(k) : k \in 0..MaxLit} \cup {n25}

\* a fraction whose decimal expansion ends
Terminating(a) == \E k \in 0..6 : Pow10(k) % a.d = 0

\* a division whose quotient str() writes in full
Writable(op, a, b) ==
    (op = kDiv /\ Float(b).n # 0) => Terminating(FDiv(Float(a), Float(b)))

FoldLines ==
    {Ln(<<kOp, f[1], vT, f[2], f[3]>>) :
        f \in {g \in FoldOps \X Literals \X Literals : Writable(g[1], g[2], g[3])}}

\* a foldable line alone, or next to a line that is not foldable
FoldTexts ==
    {<<f>> : f \in FoldLines}
        \cup {<<Ln(<<kSet, vX, n1>>), f>> : f \in FoldLines}
        \cup {<<f, Ln(<<kPrint, vX>>)>> : f \in FoldLines}

kN == <<"N">>

\* programs of four lines with a label in the middle or two labels:
\*   set x x | set x 1;  <L;  set x 1;  >L | >L !x
\*   <L;  >N | >N x >= 2.5;  <N;  >L | print x
LabelTexts ==
    {<<a, <<"<">> \o kL, Ln(<<kSet, vX, n1>>), j>> :
        a \in {Ln(<<kSet, vX, vX>>), Ln(<<kSet, vX, n1>>)},
        j \in {<<">">> \o kL, Ln(<<<<">">> \o kL, <<"!">> \o vX>>)}}
    \cup {<<<<"<">> \o kL, j, <<"<">> \o kN, e>> :
             j \in {<<">">> \o kN, Ln(<<<<">">> \o kN, vX, kGe, n25>>)},
             e \in {<<">">> \o kL, Ln(<<kPrint, vX>>)}}

PassTexts ==
    SeqsUpTo(TmpLines, MaxLines) \cup SeqsUpTo(StoreLines, MaxLines)
        \cup SeqsUpTo(JumpLines, MaxLines) \cup FoldTexts \cup LabelTexts

PassInit ==
    /\ \E lns \in PassTexts : code \in {Join(lns, <<NL>>), Unlines(lns)}
    /\ tmpv = DrawnTmpv
    /\ options = [enable |-> TRUE, unused |-> TRUE]
    /\ pc = "text"
    /\ outer = 0
    /\ inner = 1
    /\ found = FALSE
    /\ last = NoPass
    /\ prev = <<>>
    /\ resolved = <<>>
    /\ output = <<>>
    /\ exc = "none"
    /\ IdleLinker

\* one call of a pass on the text: it raised, or it returned r
Applied(r, pass, n) ==
    IF r.exc # "none" THEN Raises(r.exc, pass, n)
    ELSE Returns(r, pass, n, "applied", outer, inner)

ApplySingleTmp ==
    /\ pc = "text"
    /\ \E n \in 1..MaxWindow1 : Applied(SingleTmpOptimize(code, n, tmpv), "single", n)

ApplyForwardUse ==
    /\ pc = "text"
    /\ \E n \in 1..MaxWindow1 : Applied(ForwardUseOptimize(code, n), "forward", n)

ApplyPrecalc == pc = "text" /\ Applied(PrecalcOptimize(code), "precalc", 0)

ApplyUnused == pc = "text" /\ Applied(UnusedOptimize(code), "unused", 0)

ApplyNegative == pc = "text" /\ Applied(NegativeOptimize(code), "negative", 0)

ApplyPostprocess ==
    /\ pc = "text"
    /\ \E r \in {Postprocess(code)} :
          /\ exc' = r.exc
          /\ pc' = IF r.exc = "none" THEN "applied" ELSE "raised"
          /\ output' = r.text
          /\ resolved' = r.resolved
          /\ last' = [pass |-> "postprocess", n |-> 0]
          /\ prev' = code
          /\ UNCHANGED <<code, tmpv, options, outer, inner, found, lvars>>

PassNext ==
    \/ ApplySingleTmp
    \/ ApplyForwardUse
    \/ ApplyPrecalc
    \/ ApplyUnused
    \/ ApplyNegative
    \/ ApplyPostprocess

SpecPass == PassInit /\ [][PassNext]_vars


(***************************************************************************)
(* Linker.link as a function of the instructions.  SpecLink draws a short  *)
(* sequence of labels, macros and instructions and links it once.          *)
(***************************************************************************)
kMac == <<"m">>

\* the label L; the macro m, standing for x or for y; the instructions
\* jump L, jump M (M is defined nowhere), jump start, print m, and the
\* instruction whose text is empty
Items ==
    {MppInstructionLabel(kL),
     MppInstructionMacro(kMac, vX),
     MppInstructionMacro(kMac, vY),
     Instruction(Ln(<<kJump, kL>>)),
     Instruction(Ln(<<kJump, kM>>)),
     Instruction(Ln(<<kJump, kStart>>)),
     Instruction(Ln(<<kPrint, kMac>>)),
     Instruction(<<>>)}

LinkInit ==
    /\ prog \in SeqsUpTo(Items, MaxItems)
    /\ linked = [labels |-> EmptyDict, text |-> <<>>]
    /\ lpc = "call"
    /\ IdleNodes
    /\ IdleControl
    /\ IdleRun
    /\ code = <<>>
    /\ tmpv = 0
    /\ options = [enable |-> TRUE, unused |-> TRUE]
    /\ pc = "idle"
    /\ outer = 0
    /\ inner = 1
    /\ found = FALSE
    /\ last = NoPass
    /\ prev = <<>>
    /\ resolved = <<>>
    /\ output = <<>>
    /\ exc = "none"

\* Linker.link(code) is called and returns
LinkCall ==
    /\ lpc = "call"
    /\ linked' = Link(prog)
    /\ lpc' = "returned"
    /\ UNCHANGED <<prog, gvars, nvars, cvars, xvars>>

LinkNext == LinkCall

SpecLink == LinkInit /\ [][LinkNext]_vars


(***************************************************************************)
(* The properties checked, claim by claim.                                 *)
(***************************************************************************)
\* a pass of the given name was applied to prev and has ended
Ended(pass) == last.pass = pass /\ pc \in {"applied", "raised"}

\* a numeric literal with an optional minus sign
SignedNum(r) == IsNum(r) \/ (Len(r) >= 2 /\ r[1] = "-" /\ IsNum(Tail(r)))

\* op <opc> <dest> <a> <b> with opc in the table and a, b non-negative
\* numeric literals
TableLine(w) ==
    Len(w) = 5 /\ w[1] = kOp /\ w[2] \in PRECALC_OPS /\ IsNum(w[4]) /\ IsNum(w[5])

\* the line after, given the words w of the line before: set <dest> <r>
\* for a line of the table, the sum or the product where the opcode is add
\* or mul, and the same line otherwise
ExpectedFold(before, w, after) ==
    IF TableLine(w)
    THEN /\ Len(Split(after)) = 3
         /\ Split(after)[1] = kSet
         /\ Split(after)[2] = w[3]
         /\ SignedNum(Split(after)[3])
         /\ w[2] = kAdd => Split(after)[3] = ResultStr(FloatV(FAdd(Float(w[4]), Float(w[5]))))
         /\ w[2] = kMul => Split(after)[3] = ResultStr(FloatV(FMul(Float(w[4]), Float(w[5]))))
    ELSE after = before

\* C1: _precalc_optimize returns, and it has replaced every line
\* op <opc> <dest> <a> <b> of the table on non-negative literals by
\* set <dest> <r>, r a number (the sum for add, the product for mul, an
\* integer literal when integral), and left every other line as it was, in
\* order.
C1_EveryTableLineIsFolded ==
    Ended("precalc") =>
        /\ exc = "none"
        /\ Len(SplitLines(code)) = Len(SplitLines(prev))
        /\ \A i \in 1..Len(SplitLines(prev)) :
              ExpectedFold(SplitLines(prev)[i], Split(SplitLines(prev)[i]), SplitLines(code)[i])

\* the exceptions cli.py reports as a compile error
MlogErrors == {"UnknownLabel"}

\* a line op div|idiv|mod <dest> <a> <b> whose b is a literal zero
ZeroDivisorLine(w) ==
    /\ Len(w) = 5 /\ w[1] = kOp /\ w[2] \in {kDiv, kIdiv, kMod}
    /\ IsNum(w[4]) /\ IsNum(w[5]) /\ Float(w[5]).n = 0

HasZeroDivisor(text) ==
    \E i \in 1..Len(SplitLines(text)) : ZeroDivisorLine(Split(SplitLines(text)[i]))

\* C2: when _precalc_optimize is called in optimize on a text holding a
\* division, integer division or modulo by the literal 0, the call returns
\* or ends in a compile error: no host arithmetic fault leaves the
\* optimizer.
C2_ZeroDivisorNeverFaults ==
    (last.pass = "precalc" /\ HasZeroDivisor(prev)) => exc \in {"none"} \cup MlogErrors

\* the number of words of the lines lns that are the word name
RECURSIVE Occurrences(_, _)
Occurrences(lns, name) ==
    IF lns = <<>> THEN 0
    ELSE Cardinality({k \in 1..Len(Split(Head(lns))) : Split(Head(lns))[k] = name})
            + Occurrences(Tail(lns), name)

\* line i defines a temporary with set, and the next line uses it
DefinedThenUsed(lns, i) ==
    /\ i < Len(lns)
    /\ ReTMPS(lns[i])
    /\ \E k \in 1..Len(Split(lns[i + 1])) : Split(lns[i + 1])[k] = Split(lns[i])[2]

\* the words w with every word name replaced by the text v
Substituted(w, name, v) == Join([k \in 1..Len(w) |-> IF w[k] = name THEN v ELSE w[k]], <<SP>>)

\* the lines lns hold the line ln
Holds(lns, ln) == \E j \in 1..Len(lns) : lns[j] = ln

\* what window 1 makes of the pair at i, given the words d of the definition
ElidedOrKept(before, i, d, after) ==
    IF Occurrences(before, d[2]) = 2
    THEN /\ found
         /\ ~Holds(after, before[i])
         /\ Holds(after, Substituted(Split(before[i + 1]), d[2], From(before[i], Len(kSet) + Len(d[2]) + 2)))
    ELSE Holds(after, before[i]) /\ Holds(after, before[i + 1])

\* C3: after _single_tmp_optimize with window 1, for every line
\* set __tmpN <v> followed by a line that uses __tmpN: when __tmpN occurs
\* twice in the whole text the definition is gone, the use is written with
\* <v> and a change is reported; when it occurs a third time both lines
\* are still there.
C3_SingleUseIsElided ==
    (Ended("single") /\ last.n = 1 /\ exc = "none") =>
        \A i \in 1..Len(SplitLines(prev)) :
            DefinedThenUsed(SplitLines(prev), i) =>
                ElidedOrKept(SplitLines(prev), i, Split(SplitLines(prev)[i]), SplitLines(code))

\* the words w are an assignment: set <dest> <v> or op <opc> <dest> <a> <b>
StoreLine(w) == (Len(w) = 3 /\ w[1] = kSet) \/ (Len(w) = 5 /\ w[1] = kOp)

Destination(w) == IF w[1] = kSet THEN w[2] ELSE w[3]

\* line i of lns is an assignment whose destination is no other word of
\* the program
DeadStore(lns, i) ==
    StoreLine(Split(lns[i])) /\ Occurrences(lns, Destination(Split(lns[i]))) = 1

\* the lines i.. of lns without the dead stores of lns
RECURSIVE WithoutDeadStores(_, _)
WithoutDeadStores(lns, i) ==
    IF i > Len(lns) THEN <<>>
    ELSE (IF DeadStore(lns, i) THEN <<>> ELSE <<lns[i]>>) \o WithoutDeadStores(lns, i + 1)

\* C4: _unused_optimize deletes exactly the set/op lines whose destination
\* is a whole word nowhere else in the program (a name that is only a part
\* of another identifier does not count as a use), and keeps all other
\* lines unchanged and in order.
C4_DeadStoresByToken ==
    (Ended("unused") /\ exc = "none") =>
        SplitLines(code) = WithoutDeadStores(SplitLines(prev), 1)

\* C5: when the dead-store stage of optimize has ended, one more
\* _unused_optimize on its text removes no line and reports no change.
C5_DeadStoreStageIsFixpoint ==
    (pc = "post" /\ last.pass = "unused") =>
        /\ SplitLines(UnusedOptimize(code).text) = SplitLines(code)
        /\ ~UnusedOptimize(code).found

\* a real instruction: not a label, not a macro, and its text not empty
Real(ins) == ins.kind = "ins" /\ ins.text # <<>>

\* the number of real instructions before place i
RealBefore(insns, i) == Cardinality({k \in 1..(i - 1) : Real(insns[k])})

IsLabelAt(insns, i, name) == insns[i].kind = "label" /\ insns[i].name = name
IsMacroAt(insns, i, name) == insns[i].kind = "macro" /\ insns[i].name = name

\* the places where name is defined as a label, and as a macro
LabelPlaces(insns, name) == {i \in 1..Len(insns) : IsLabelAt(insns, i, name)}
MacroPlaces(insns, name) == {i \in 1..Len(insns) : IsMacroAt(insns, i, name)}

\* the largest place of a non-empty set of places
LastOf(places) == CHOOSE i \in places : \A j \in places : j <= i

\* word p of the output line of the real instruction at place k
OutWord(k, p) == Split(SplitLines(linked.text)[RealBefore(prog, k) + 1])[p]

\* the places of the words of the real instructions
RealWords == {kp \in (1..Len(prog)) \X (1..2) : Real(prog[kp[1]]) /\ kp[2] <= Len(Split(prog[kp[1]].text))}

InWord(kp) == Split(prog[kp[1]].text)[kp[2]]

\* C6: Linker.link gives every label the number of real instructions
\* before it (its last definition, when a name is defined twice), the
\* output has one line per real instruction, and every word that names a
\* defined label, before or after the label in the sequence, is replaced
\* by that number.
C6_LabelsCountRealInstructions ==
    lpc = "returned" =>
        /\ Len(SplitLines(linked.text)) = RealBefore(prog, Len(prog) + 1)
        /\ \A i \in 1..Len(prog) :
              (prog[i].kind = "label" /\ i = LastOf(LabelPlaces(prog, prog[i].name)))
                  => linked.labels[prog[i].name] = RealBefore(prog, i)
        /\ \A kp \in RealWords :
              (LabelPlaces(prog, InWord(kp)) # {} /\ MacroPlaces(prog, InWord(kp)) = {})
                  => OutWord(kp[1], kp[2])
                        = NatStr(RealBefore(prog, LastOf(LabelPlaces(prog, InWord(kp)))))

\* two real instructions, the first one a reference to the label, then the
\* label, then one more reference: the label is 2 in both
C6_LabelAfterTwoInstructions ==
    /\ lpc = "returned"
    /\ Len(prog) = 4
    /\ Real(prog[1]) /\ Real(prog[2]) /\ prog[3].kind = "label" /\ Real(prog[4])
    /\ Split(prog[1].text)[2] = prog[3].name
    /\ Split(prog[4].text)[2] = prog[3].name
    /\ linked.labels[prog[3].name] = 2
    /\ OutWord(1, 2) = <<"2">>
    /\ OutWord(4, 2) = <<"2">>

\* a real instruction jump <name> whose name is no number, not start, and
\* is defined nowhere as a label or as a macro
JumpsToUndefined(insns, w) ==
    /\ Len(w) >= 2 /\ w[1] = kJump /\ ~IsNum(w[2]) /\ w[2] # kStart
    /\ LabelPlaces(insns, w[2]) = {} /\ MacroPlaces(insns, w[2]) = {}

\* C7: Linker.link returns no output text for a program with a jump to a
\* label that is defined nowhere.
C7_UndefinedLabelIsFatal ==
    lpc = "returned" =>
        ~\E k \in 1..Len(prog) : Real(prog[k]) /\ JumpsToUndefined(prog, Split(prog[k].text))

\* the text the macro defined at place i stands for (a value without the
\* colon that marks an expression)
Expansion(insns, i) == insns[i].value

\* the places before k where name is defined as a macro
MacroPlacesBefore(insns, name, k) == {i \in MacroPlaces(insns, name) : i < k}

\* C8 as the specification states it: every word of a real instruction
\* that is the name of a macro defined anywhere in the program, before or
\* after the instruction, is replaced by an expansion of that macro.
C8_MacrosDefinedAnywhere ==
    lpc = "returned" =>
        \A kp \in RealWords :
            MacroPlaces(prog, InWord(kp)) # {}
                => \E i \in MacroPlaces(prog, InWord(kp)) :
                      OutWord(kp[1], kp[2]) = Expansion(prog, i)

\* C8: a word of a real instruction that is the name of a macro is
\* replaced by the expansion of the last definition of that macro before
\* the instruction; when the macro is defined only after the instruction
\* the word is left as it is.
C8_MacrosDefinedBefore ==
    lpc = "returned" =>
        \A kp \in RealWords :
            (MacroPlaces(prog, InWord(kp)) # {} /\ LabelPlaces(prog, InWord(kp)) = {})
                => OutWord(kp[1], kp[2])
                      = IF MacroPlacesBefore(prog, InWord(kp), kp[1]) = {} THEN InWord(kp)
                        ELSE Expansion(prog, LastOf(MacroPlacesBefore(prog, InWord(kp), kp[1])))

\* a macro defined twice with an instruction that uses it in between, and
\* another use before the first definition
C8_UseBetweenDefinitions ==
    /\ lpc = "returned"
    /\ Len(prog) = 4
    /\ Real(prog[1]) /\ prog[2].kind = "macro" /\ Real(prog[3]) /\ prog[4].kind = "macro"
    /\ prog[2].name = prog[4].name /\ prog[2].value # prog[4].value
    /\ Split(prog[1].text)[2] = prog[2].name
    /\ Split(prog[3].text)[2] = prog[2].name
    /\ OutWord(1, 2) = prog[2].name
    /\ OutWord(3, 2) = Expansion(prog, 2)

\* postprocess returned, and the resolved program it came to has a line
PostprocessedLines ==
    Ended("postprocess") /\ exc = "none" /\ SplitLines(resolved) # <<>>

\* the last line of the resolved program, in words
LastResolved == Split(SplitLines(resolved)[Len(SplitLines(resolved))])

\* the resolved program without its last line
FrontResolved == SubSeq(SplitLines(resolved), 1, Len(SplitLines(resolved)) - 1)

\* jump 0 ..., and jump 0 always ...
JumpToStart(w) == Len(w) >= 2 /\ w[1] = kJump /\ w[2] = n0
AlwaysJumpToStart(w) == JumpToStart(w) /\ Len(w) >= 3 /\ w[3] = kAlways

\* C9 as the specification states it: the last line of the resolved
\* program is removed when it is an unconditional jump to line 0, and a
\* last line of any other form, a conditional jump to line 0 included, is
\* kept; the lines before it stay.
C9_OnlyUnconditionalJumpElided ==
    PostprocessedLines =>
        SplitLines(output) = IF AlwaysJumpToStart(LastResolved) THEN FrontResolved
                             ELSE SplitLines(resolved)

\* C9: the last line of the resolved program is removed when it is a
\* jump to line 0, conditional or not; a last line of any other form is
\* kept, and the lines before the last one stay as they are.
C9_TrailingJumpToStartElided ==
    PostprocessedLines =>
        SplitLines(output) = IF JumpToStart(LastResolved) THEN FrontResolved
                             ELSE SplitLines(resolved)

\* a resolved program of two lines or more that ends in a conditional
\* jump to line 0, returned without that line
C9_ConditionalJumpElided ==
    /\ PostprocessedLines
    /\ Len(SplitLines(resolved)) >= 2
    /\ JumpToStart(LastResolved)
    /\ ~AlwaysJumpToStart(LastResolved)
    /\ SplitLines(output) = FrontResolved

\* C10: when generate returns, no line of its text is a label definition
\* <name or a symbolic jump >name ...
C10_OutputFullyResolved ==
    (pc = "done" /\ exc = "none") =>
        \A i \in 1..Len(SplitLines(output)) :
            SplitLines(output)[i] # <<>> => SplitLines(output)[i][1] \notin {"<", ">"}


(***************************************************************************)
(* The typed nodes of node_rewrite.py.  A node's generate() or get() is an *)
(* operator from the generation state before the call to the state after   *)
(* it: g.sc is Scopes, g.tmp the number of temporaries Gen handed out,     *)
(* g.ins the instructions the call returns, g.val the value get() returns  *)
(* and g.exc the error the call raised.  A name is a sequence of strings,  *)
(* so that a mangled name is the scope's name followed by the identifier.  *)
(***************************************************************************)
\* value.py, Type: a flag enumeration, a member being the set of its bits
NUM == {"NUM"}
STR == {"STR"}
NULL == {"NULL"}
BLOCK == {"BLOCK"}
UNIT == {"UNIT"}
BLOCK_TYPE == {"BLOCK_TYPE"}
ANY ==
    {"NUM", "STR", "NULL", "BLOCK", "UNIT", "TEAM", "UNIT_TYPE", "ITEM_TYPE",
     "BLOCK_TYPE", "LIQUID_TYPE", "CONTROLLER"}

\* two flags that share a bit
TypeMeets(other, self) == other \cap self # {}

\* enum.Flag.__contains__, the test  other in self : every bit of other is
\* a bit of self
TypeIn(other, self) == other \cap self = other

\* value.py: the values; a Function and None stand beside them in a scope
NullValue == [class |-> "NullValue", type |-> NULL, name |-> <<"null">>, const |-> FALSE]
StringValue(value) == [class |-> "StringValue", type |-> STR, name |-> value, const |-> FALSE]
NumberValue(value) == [class |-> "NumberValue", type |-> NUM, name |-> value, const |-> FALSE]
VariableValue(type, name, const) ==
    [class |-> "VariableValue", type |-> type, name |-> name, const |-> const]
Function(name, params, return_type) ==
    [class |-> "Function", type |-> {}, name |-> name, const |-> FALSE,
     params |-> params, return_type |-> return_type]
None == [class |-> "None", type |-> {}, name |-> <<>>, const |-> FALSE]
\* a bare string among the parameters of an instruction
Str(name) == [class |-> "str", type |-> {}, name |-> name, const |-> FALSE]
Word(s) == Str(<<s>>)

\* Scopes: a frame has a name and the entities bound in it
Scope(name) == [name |-> name, binds |-> {}]
ScopesPush(sc, name) == Append(sc, Scope(name))
ScopesPop(sc) == SubSeq(sc, 1, Len(sc) - 1)

\* the frames that bind the name
Binding(sc, name) == {i \in 1..Len(sc) : \E e \in sc[i].binds : e.name = name}

\* Scopes.get: the innermost frame that binds the name is asked
ScopesGet(sc, name) ==
    IF Binding(sc, name) = {} THEN None
    ELSE CHOOSE e \in sc[CHOOSE i \in Binding(sc, name) : \A j \in Binding(sc, name) : i >= j].binds :
             e.name = name

\* Scopes.add: the entity is bound in the innermost frame
ScopesAdd(sc, e) ==
    [sc EXCEPT ![Len(sc)].binds = {b \in @ : b.name # e.name} \cup {e}]

\* Scope(name).rename(identifier): the mangled name
ScopeRename(scope, name) == scope \o name

\* the errors of Error, and the exceptions of Python
NoError == [kind |-> "none", found |-> {}, expected |-> {}, nfound |-> 0, nexpected |-> 0]
Error(kind) == [NoError EXCEPT !.kind = kind]
incompatible_types(f, e) ==
    [NoError EXCEPT !.kind = "IncompatibleTypes", !.found = f, !.expected = e]
invalid_arg_count(f, e) ==
    [NoError EXCEPT !.kind = "InvalidArgumentCount", !.nfound = f, !.nexpected = e]

GenState(sc, tmp) == [sc |-> sc, tmp |-> tmp, ins |-> <<>>, exc |-> NoError, val |-> NullValue]
\* the state a nested call starts from: it returns its own instructions
Fresh(g) == [g EXCEPT !.ins = <<>>]
Failed(g) == g.exc.kind # "none"
Throw(g, e) == [g EXCEPT !.exc = e]
Emit(g, instructions) == [g EXCEPT !.ins = @ \o instructions]

\* instruction.py
MInstruction(type, params) == [type |-> type, params |-> params]
MppInstructionJump(label) == [type |-> "MppInstructionJump", params |-> <<Str(label)>>]
MppInstructionOJump(label, a, op, b) ==
    [type |-> "MppInstructionOJump", params |-> <<Str(label), a, Word(op), b>>]
MppLabel(label) == [type |-> "MppInstructionLabel", params |-> <<Str(label)>>]

\* Gen.temp_var(type) after the counter went up to k
TempVar(k, type) == VariableValue(type, <<"__tmp">> \o NatStr(k), FALSE)

\* the names of a function's linkage
kCounter == <<"@counter">>
FunLabel(name) == <<"__f_">> \o name
FunRet(name) == <<"__f_">> \o name \o <<"_ret">>
FunRetv(name) == <<"__f_">> \o name \o <<"_retv">>
FunEnd(name) == <<"__f_">> \o name \o <<"_end">>

NumberValueNode(value) == [node |-> "NumberValueNode", value |-> value]
StringValueNode(value) == [node |-> "StringValueNode", value |-> value]
VariableValueNode(value) == [node |-> "VariableValueNode", value |-> value]
NoNode == [node |-> "None"]

\* VariableValueNode.get, for a name without a dot
VariableGot(g, var) ==
    IF var.class = "VariableValue" THEN [g EXCEPT !.val = var]
    ELSE Throw(g, Error("UndefinedVariable"))

VariableValueNode_get(n, g) == VariableGot(g, ScopesGet(g.sc, n.value))

\* get() of a node that holds a value
ValueGet(n, g) ==
    CASE n.node = "NumberValueNode" -> [g EXCEPT !.val = NumberValue(n.value)]
      [] n.node = "StringValueNode" -> [g EXCEPT !.val = StringValue(n.value)]
      [] n.node = "VariableValueNode" -> VariableValueNode_get(n, g)

\* BinaryOpNode
OPERATORS(op) ==
    CASE op = "+" -> "add"
      [] op = "<" -> "lessThan"
      [] op = "==" -> "equal"
      [] op = "!=" -> "notEqual"
      [] op = "===" -> "strictEqual"

EQUALITY == {"==", "!=", "==="}

BinaryOpNode(left, right) == [node |-> "BinaryOpNode", left |-> left, right |-> right]

RECURSIVE BinaryRight(_, _, _, _)
\* one turn of  for op, node in self.right , v being node.get()
BinaryOperand(right, i, g, tv, v) ==
    IF Failed(v) THEN v
    ELSE IF ~TypeIn(v.val.type, NUM) THEN Throw(v, incompatible_types(v.val.type, NUM))
    ELSE BinaryRight(right, i + 1,
             [v EXCEPT !.ins = g.ins \o @ \o
                 <<MInstruction("OP", <<Word(OPERATORS(right[i].op)), tv, tv, v.val>>)>>],
             tv)

BinaryRight(right, i, g, tv) ==
    IF i > Len(right) THEN [g EXCEPT !.val = tv]
    ELSE BinaryOperand(right, i, g, tv, ValueGet(right[i].node, Fresh(g)))

\* a Value object: the call that made it, and the fields it holds
Object(by, value) == [by |-> by, value |-> value]

\* Value.__hash__ and its overrides: the hashed tuple of each class
ValueHash(v) ==
    CASE v.class = "VariableValue" -> <<v.type, v.name, v.const>>
      [] v.class = "NullValue" -> <<v.type, <<"null">>>>
      [] OTHER -> <<v.type, v.name>>

\* a == b : Value and its subclasses define __hash__ and no __eq__, so the
\* comparison is object's, which holds of an object and itself only
ValueEq(a, b) == a.by = b.by

\* a != b
ValueNe(a, b) == ~ValueEq(a, b)

\* if tmpv != value: code += SET tmpv value , tmpv being the object this call
\* of Gen.temp_var made and value the one self.left.get() returned
BinarySet(tmp, value) ==
    IF ValueNe(Object("temp_var", tmp), Object("left.get", value))
    THEN <<MInstruction("SET", <<tmp, value>>)>>
    ELSE <<>>

\* the rest of get(), l being self.left.get()
BinaryLeft(n, l) ==
    IF Failed(l) THEN l
    ELSE IF /\ ~TypeIn(l.val.type, NUM)
            /\ \E i \in 1..Len(n.right) : n.right[i].op \notin EQUALITY
         THEN Throw(l, incompatible_types(l.val.type, NUM))
    ELSE IF Len(n.right) > 0
         THEN BinaryRight(n.right, 1,
                  [l EXCEPT !.tmp = @ + 1,
                            !.ins = @ \o BinarySet(TempVar(l.tmp + 1, NUM), l.val)],
                  TempVar(l.tmp + 1, NUM))
    ELSE l

BinaryOpNode_get(n, g) == BinaryLeft(n, ValueGet(n.left, g))

\* UnaryOpNode
UnaryOpNode(op, value) == [node |-> "UnaryOpNode", op |-> op, value |-> value]

\* the number 0 among the parameters of an instruction
Zero == [class |-> "int", type |-> {}, name |-> <<"0">>, const |-> FALSE]

\* match self.op , tmp being the temporary the call took
UnaryInstruction(op, tmp) ==
    CASE op = "-" -> <<MInstruction("OP", <<Word("sub"), tmp, Zero, tmp>>)>>
      [] op = "!" -> <<MInstruction("OP", <<Word("notEqual"), tmp, tmp, Word("true")>>)>>
      [] op = "~" -> <<MInstruction("OP", <<Word("not"), tmp, tmp, Word("_")>>)>>
      [] OTHER -> <<>>

\* the rest of get(), v being self.value.get(): the value returned is v's
UnaryValue(n, v) ==
    IF Failed(v) THEN v
    ELSE IF ~TypeIn(v.val.type, NUM) THEN Throw(v, incompatible_types(v.val.type, NUM))
    ELSE [v EXCEPT !.tmp = @ + 1,
                   !.ins = @ \o UnaryInstruction(n.op, TempVar(v.tmp + 1, NUM))]

UnaryOpNode_get(n, g) == UnaryValue(n, ValueGet(n.value, g))

\* CallNode
CallNode(name, params) == [node |-> "CallNode", name |-> name, params |-> params]

\* self.return_value
CallReturnValue(n, fun) ==
    IF fun.return_type # NULL THEN VariableValue(fun.return_type, FunRetv(n.name), FALSE)
    ELSE NullValue

RECURSIVE CallParams(_, _, _, _)
\* a turn that lets an argument pass whose type is contained in the type of
\* its parameter
CallParamContained(n, fun, i, g, v) ==
    IF Failed(v) THEN v
    ELSE IF ~(v.val.type \subseteq fun.params[i].type)
         THEN Throw(v, incompatible_types(v.val.type, fun.params[i].type))
    ELSE CallParams(n, fun, i + 1,
             [v EXCEPT !.ins = g.ins \o @ \o
                 <<MInstruction("SET",
                       <<VariableValue(fun.params[i].type, ScopeRename(n.name, fun.params[i].name), FALSE),
                         v.val>>)>>])

\* one turn of  for i, param in enumerate(self.params) , v being param.get()
CallParam(n, fun, i, g, v) ==
    IF Failed(v) THEN v
    ELSE IF v.val.type # fun.params[i].type
         THEN Throw(v, incompatible_types(v.val.type, fun.params[i].type))
    ELSE CallParams(n, fun, i + 1,
             [v EXCEPT !.ins = g.ins \o @ \o
                 <<MInstruction("SET",
                       <<VariableValue(fun.params[i].type, ScopeRename(n.name, fun.params[i].name), FALSE),
                         v.val>>)>>])

CallParams(n, fun, i, g) ==
    IF i > Len(n.params) THEN g
    ELSE CallParam(n, fun, i, g, ValueGet(n.params[i], Fresh(g)))

\* the return address and the jump to the function
CallLinkage(n, fun, g) ==
    IF Failed(g) THEN g
    ELSE [g EXCEPT !.ins = @ \o
              <<MInstruction("OP", <<Word("add"), VariableValue(NUM, FunRet(n.name), FALSE),
                                     VariableValue(NUM, kCounter, FALSE), NumberValue(<<"1">>)>>),
                MppInstructionJump(FunLabel(n.name))>>,
                    !.val = CallReturnValue(n, fun)]

CallResolved(n, g, fun) ==
    IF fun.class # "Function" THEN Throw(g, Error("UndefinedFunction"))
    ELSE IF Len(n.params) # Len(fun.params)
         THEN Throw(g, invalid_arg_count(Len(n.params), Len(fun.params)))
    ELSE CallLinkage(n, fun, CallParams(n, fun, 1, g))

CallNode_generate(n, g) == CallResolved(n, g, ScopesGet(g.sc, n.name))

\* get() of the node that stands for a value
NodeGet(n, g) ==
    CASE n.node = "BinaryOpNode" -> BinaryOpNode_get(n, g)
      [] n.node = "CallNode" -> CallNode_generate(n, g)
      [] OTHER -> ValueGet(n, g)

\* DeclarationNode
DeclarationNode(var, value) == [node |-> "DeclarationNode", var |-> var, value |-> value]

\* the rest of generate(), v being self.value.get()
DeclarationSet(n, v) ==
    IF Failed(v) THEN v
    ELSE IF ~TypeIn(v.val.type, n.var.type)
         THEN Throw(v, incompatible_types(v.val.type, n.var.type))
    ELSE Emit(v, <<MInstruction("SET", <<n.var, v.val>>)>>)

\* generate() after Scopes.add(self.var)
DeclarationValue(n, g) ==
    IF n.value.node = "None" THEN g ELSE DeclarationSet(n, NodeGet(n.value, g))

DeclarationNode_generate(n, g) ==
    IF ScopesGet(g.sc, n.var.name).class # "None" THEN Throw(g, Error("AlreadyDefinedVariable"))
    ELSE DeclarationValue(n, [g EXCEPT !.sc = ScopesAdd(@, n.var)])

\* AssignmentNode
AssignmentOPERATORS(op) ==
    CASE op = "+=" -> "add"
      [] op = "-=" -> "sub"

RwAssignmentNode(var, op, value) ==
    [node |-> "AssignmentNode", var |-> var, op |-> op, value |-> value]

\* the rest of generate(), v being self.value.get()
AssignmentSet(n, var, v) ==
    IF Failed(v) THEN v
    ELSE IF n.op = "="
         THEN IF ~TypeIn(v.val.type, var.type)
              THEN Throw(v, incompatible_types(v.val.type, var.type))
              ELSE Emit(v, <<MInstruction("SET", <<var, v.val>>)>>)
    ELSE IF ~TypeIn(var.type, NUM) THEN Throw(v, incompatible_types(var.type, NUM))
    ELSE IF ~TypeIn(v.val.type, NUM) THEN Throw(v, incompatible_types(v.val.type, NUM))
    ELSE Emit(v, <<MInstruction("OP", <<Word(AssignmentOPERATORS(n.op)), var, var, v.val>>)>>)

\* generate(), var being Scopes.get(self.var), for a name without a dot
AssignmentResolved(n, g, var) ==
    IF var.class = "VariableValue"
    THEN IF var.const THEN Throw(g, Error("WriteToConst"))
         ELSE AssignmentSet(n, var, NodeGet(n.value, g))
    ELSE Throw(g, Error("UndefinedVariable"))

AssignmentNode_generate(n, g) == AssignmentResolved(n, g, ScopesGet(g.sc, n.var))

\* NativeCallNode: the natives the model calls
Input(type) == [param |-> "INPUT", type |-> type]
Output(type) == [param |-> "OUTPUT", type |-> type]
\* (Param.CONFIG, (keywords))
Config(keywords) == [param |-> "CONFIG", type |-> keywords]

NativeNames == {"print", "getlink", "ucontrol.getBlock", "radar"}

RadarTargets ==
    {<<"any">>, <<"enemy">>, <<"ally">>, <<"player">>, <<"attacker">>, <<"flying">>,
     <<"boss">>, <<"ground">>}
RadarSorts == {<<"distance">>, <<"health">>, <<"shield">>, <<"armor">>, <<"maxHealth">>}

NATIVES(name) ==
    CASE name = "print" -> <<Input(ANY)>>
      [] name = "getlink" -> <<Output(BLOCK), Input(NUM)>>
      [] name = "ucontrol.getBlock" -> <<Input(NUM), Input(NUM), Output(BLOCK_TYPE), Output(BLOCK)>>
      [] name = "radar" -> <<Config(RadarTargets), Config(RadarTargets), Config(RadarTargets),
                             Config(RadarSorts), Input(BLOCK), Input(NUM), Output(UNIT)>>

\* NATIVES_RETURN_POS.get(name), -1 for None
NATIVES_RETURN_POS(name) == IF name = "getlink" THEN 0 ELSE IF name = "radar" THEN 6 ELSE 0 - 1

NativeCallNode(name, params) == [node |-> "NativeCallNode", name |-> name, params |-> params]
\* an argument that is a str, at a CONFIG position
StrParam(s) == [node |-> "str", value |-> s]

\* the instruction of the call:  "." in self.name  puts the subcommand first
NativeInstruction(name, params) ==
    CASE name = "ucontrol.getBlock" -> MInstruction("UCONTROL", <<Word("getBlock")>> \o params)
      [] name = "getlink" -> MInstruction("GETLINK", params)
      [] name = "print" -> MInstruction("PRINT", params)
      [] name = "radar" -> MInstruction("RADAR", params)

\* the instruction, params being the list built; self.return_value is the
\* temporary made at the return position, which g.val holds since then
NativeEmit(n, g, params) ==
    [g EXCEPT !.ins = @ \o <<NativeInstruction(n.name, params)>>,
              !.val = IF NATIVES_RETURN_POS(n.name) >= 0 THEN g.val ELSE NullValue]

RECURSIVE NativeParams(_, _, _, _, _)
\* case Param.INPUT, v being param.get()
NativeInput(n, nat, i, g, params, v) ==
    IF Failed(v) THEN v
    ELSE IF ~TypeIn(v.val.type, nat[i].type)
         THEN Throw(v, incompatible_types(v.val.type, nat[i].type))
    ELSE NativeParams(n, nat, i + 1, [v EXCEPT !.ins = g.ins \o @, !.val = g.val],
                      Append(params, v.val))

\* case Param.OUTPUT away from the return position, var being Scopes.get(param)
NativeOutput(n, nat, i, g, params, var) ==
    IF var.class = "None"
    THEN NativeParams(n, nat, i + 1,
             [g EXCEPT !.sc = ScopesAdd(@, VariableValue(nat[i].type, n.params[i], FALSE))],
             Append(params, VariableValue(nat[i].type, n.params[i], FALSE)))
    ELSE IF var.class = "Function" THEN Throw(g, Error("AlreadyDefinedVariable"))
    ELSE IF var.type # nat[i].type THEN Throw(g, incompatible_types(var.type, nat[i].type))
    ELSE NativeParams(n, nat, i + 1, g, Append(params, var))

NativeParams(n, nat, i, g, params) ==
    IF i > Len(n.params) THEN NativeEmit(n, g, params)
    ELSE IF nat[i].param = "CONFIG"
         \* if isinstance(param, str): params.append(param)
         THEN NativeParams(n, nat, i + 1, g,
                  IF n.params[i].node = "str" THEN Append(params, Str(n.params[i].value))
                  ELSE params)
    ELSE IF nat[i].param = "INPUT"
         THEN NativeInput(n, nat, i, g, params, NodeGet(n.params[i], Fresh(g)))
    ELSE IF i - 1 = NATIVES_RETURN_POS(n.name)
         THEN NativeParams(n, nat, i + 1,
                  [g EXCEPT !.tmp = @ + 1, !.val = TempVar(g.tmp + 1, nat[i].type)],
                  Append(params, TempVar(g.tmp + 1, nat[i].type)))
    ELSE NativeOutput(n, nat, i, g, params, ScopesGet(g.sc, n.params[i]))

NativeCallNode_generate_native(n, g) ==
    IF n.name \notin NativeNames THEN Throw(g, Error("UndefinedFunction"))
    ELSE IF Len(n.params) # Len(NATIVES(n.name))
         THEN Throw(g, invalid_arg_count(Len(n.params), Len(NATIVES(n.name))))
    ELSE NativeParams(n, NATIVES(n.name), 1, g, <<>>)

\* FunctionNode: Function(self.name, self.params, self.return_type) is a call
\* without the specifier and the node that Function.__init__ requires
FunctionNode(name, params, return_type, nodes) ==
    [node |-> "FunctionNode", name |-> name, params |-> params,
     return_type |-> return_type, code |-> nodes]

FunctionNode_generate(n, g) == Throw(g, Error("TypeError"))

\* ReturnNode
ReturnNode(func, value) == [node |-> "ReturnNode", func |-> func, value |-> value]

\* the rest of generate(), v being self.value.get() and fun Scopes.get(self.func);
\* self.name is no attribute of a ReturnNode
ReturnSet(n, v, fun) ==
    IF fun.class # "Function" THEN Throw(v, Error("AttributeError"))
    ELSE IF v.val.type # fun.return_type
         THEN Throw(v, incompatible_types(v.val.type, fun.return_type))
    ELSE Emit(v, <<MInstruction("SET", <<VariableValue(v.val.type, FunRetv(n.func), FALSE), v.val>>)>>)

ReturnValue(n, v) == IF Failed(v) THEN v ELSE ReturnSet(n, v, ScopesGet(v.sc, n.func))

ReturnNode_generate(n, g) ==
    IF n.value.node = "None" THEN g ELSE ReturnValue(n, NodeGet(n.value, g))

\* CodeBlockNode and RangeNode, whose bodies are nodes again
CodeBlockNode(nodes, name) == [node |-> "CodeBlockNode", code |-> nodes, name |-> name]
RangeNode(name, var, until, nodes) ==
    [node |-> "RangeNode", name |-> name, var |-> var, until |-> until, code |-> nodes]

RECURSIVE NodeGenerate(_, _)
RECURSIVE BlockFold(_, _, _)
\* one turn of  for node in self.code , r being node.generate()
BlockStep(nodes, i, g, r) ==
    IF Failed(r) THEN r ELSE BlockFold(nodes, i + 1, [r EXCEPT !.ins = g.ins \o @])

BlockFold(nodes, i, g) ==
    IF i > Len(nodes) THEN g ELSE BlockStep(nodes, i, g, NodeGenerate(nodes[i], Fresh(g)))

BlockPop(g) == IF Failed(g) THEN g ELSE [g EXCEPT !.sc = ScopesPop(@)]

CodeBlockNode_generate(n, g) ==
    BlockPop(BlockFold(n.code, 1, [g EXCEPT !.sc = ScopesPush(@, n.name)]))

\* the loop with the bound tested by greaterThan
RangeCodeGreaterThan(n, var, u, b) ==
    IF Failed(b) THEN b
    ELSE [b EXCEPT !.ins =
              <<MInstruction("SET", <<var, NumberValue(<<"0">>)>>), MppLabel(n.name \o <<"_s">>)>>
              \o u.ins
              \o <<MppInstructionOJump(n.name \o <<"_e">>, var, "greaterThan", u.val)>>
              \o @
              \o <<MInstruction("OP", <<Word("add"), var, var, NumberValue(<<"1">>)>>),
                   MppInstructionJump(n.name \o <<"_s">>), MppLabel(n.name \o <<"_e">>)>>]

\* the code of the loop, u being self.until.get() and b self.code.generate()
RangeCode(n, var, u, b) ==
    IF Failed(b) THEN b
    ELSE [b EXCEPT !.ins =
              <<MInstruction("SET", <<var, NumberValue(<<"0">>)>>), MppLabel(n.name \o <<"_s">>)>>
              \o u.ins
              \o <<MppInstructionOJump(n.name \o <<"_e">>, var, "greaterThanEq", u.val)>>
              \o @
              \o <<MInstruction("OP", <<Word("add"), var, var, NumberValue(<<"1">>)>>),
                   MppInstructionJump(n.name \o <<"_s">>), MppLabel(n.name \o <<"_e">>)>>]

RangeUntil(n, var, u) ==
    IF Failed(u) THEN u
    ELSE IF u.val.type # NUM THEN Throw(u, incompatible_types(u.val.type, NUM))
    ELSE RangeCode(n, var, u, CodeBlockNode_generate(n.code, Fresh(u)))

\* generate(), var being Scopes.get(self.var)
RangeVar(n, g, var) ==
    IF var.class = "None"
    THEN RangeUntil(n, VariableValue(NUM, n.var, FALSE),
             NodeGet(n.until, [g EXCEPT !.sc = ScopesAdd(@, VariableValue(NUM, n.var, FALSE))]))
    ELSE IF var.class = "Function" THEN Throw(g, Error("AlreadyDefinedVariable"))
    ELSE IF var.type # NUM THEN Throw(g, incompatible_types(var.type, NUM))
    ELSE RangeUntil(n, var, NodeGet(n.until, g))

RangeNode_generate(n, g) == RangeVar(n, g, ScopesGet(g.sc, n.var))

\* node.generate(): the call starts with no instructions and returns its own
NodeGenerate(n, g) ==
    CASE n.node = "DeclarationNode" -> DeclarationNode_generate(n, g)
      [] n.node = "AssignmentNode" -> AssignmentNode_generate(n, g)
      [] n.node = "CallNode" -> CallNode_generate(n, g)
      [] n.node = "NativeCallNode" -> NativeCallNode_generate_native(n, g)
      [] n.node = "RangeNode" -> RangeNode_generate(n, g)
      [] n.node = "CodeBlockNode" -> CodeBlockNode_generate(n, g)
      [] n.node = "FunctionNode" -> FunctionNode_generate(n, g)
      [] n.node = "ReturnNode" -> ReturnNode_generate(n, g)

(***************************************************************************)
(* SpecNode: nodes are generated one after another in the scope of the     *)
(* program, one action per class of node, until one of them raises.        *)
(***************************************************************************)
\* the nodes generated in a run
MaxNodes == 3
\* the operators that follow the left operand of a BinaryOpNode
MaxRight == 2
\* the statements of a block
MaxBlock == 2
\* the arguments of a call
MaxArgs == 2

vF == <<"f">>
vH == <<"h">>
kBlock == <<"b">>
kRange == <<"r">>
sA == <<"\"", "a", "\"">>

\* 1,  "a",  x  and  y
Operands ==
    {NumberValueNode(n1), StringValueNode(sA), VariableValueNode(vX), VariableValueNode(vY)}

DeclaredTypes == {NUM, STR, BLOCK, ANY}

\* num x;  const str y = "a";  any x = y;  ...
\* the name of the first temporary, written by the programmer
vTmp1 == <<"__tmp", "1">>

\* num x;  const str y = "a";  any x = y;  ...  and  num __tmp1;
Declarations ==
    {DeclarationNode(VariableValue(type, name, const), value) :
        type \in DeclaredTypes, name \in {vX, vY}, const \in BOOLEAN,
        value \in {NoNode} \cup Operands}
    \cup {DeclarationNode(VariableValue(NUM, vTmp1, FALSE), NoNode)}

\* 1 + x,  x == "a",  "a" == 1 + y,  ...
RightSides ==
    {<<>>} \cup SeqsUpTo({[op |-> op, node |-> node] :
                             op \in {"+", "=="}, node \in Operands \ {VariableValueNode(vY)}},
                         MaxRight)

\* -x,  !1,  ~"a",  ...
UnaryOps == {UnaryOpNode(op, value) : op \in {"-", "!", "~"}, value \in Operands}

\* and  __tmp1 + 1,  __tmp1 == 1
BinaryOps ==
    {BinaryOpNode(left, right) : left \in Operands, right \in RightSides}
    \cup {BinaryOpNode(VariableValueNode(vTmp1), <<[op |-> op, node |-> NumberValueNode(n1)]>>) :
             op \in {"+", "=="}}

\* f(),  f(x, 1),  h(1),  x("a"),  ...
Calls ==
    {CallNode(name, params) :
        name \in {vF, vH, vX},
        params \in {<<>>} \cup SeqsUpTo(Operands \ {VariableValueNode(vY)}, MaxArgs)}

\* x = 1;  y += x;  x = f(1, 1);  y = 1 + x;  ...
Assignments ==
    {RwAssignmentNode(var, op, value) :
        var \in {vX, vY}, op \in {"=", "+="},
        value \in Operands \cup {CallNode(vF, <<NumberValueNode(n1), NumberValueNode(n1)>>),
                                 BinaryOpNode(NumberValueNode(n1),
                                              <<[op |-> "+", node |-> VariableValueNode(vX)]>>)}}

\* print(x);  print();  x = getlink(1);  ucontrol.getBlock(1, x, y, x);  nope(1);
\* radar(enemy, any, any, distance, x, 1, y);  radar(bogus, ..);  radar(1, ..)
NativeCalls ==
    {NativeCallNode("print", params) : params \in {<<>>} \cup {<<o>> : o \in Operands}}
    \cup {NativeCallNode("getlink", <<vX, o>>) : o \in Operands}
    \cup {NativeCallNode("ucontrol.getBlock", <<NumberValueNode(n1), o, type, building>>) :
             o \in {NumberValueNode(n1), VariableValueNode(vX)},
             type \in {vX, vY}, building \in {vX, vY}}
    \cup {NativeCallNode("nope", <<NumberValueNode(n1)>>)}
    \cup {NativeCallNode("radar", <<target, StrParam(<<"any">>), StrParam(<<"any">>),
                                    StrParam(<<"distance">>), VariableValueNode(vX),
                                    NumberValueNode(n1), vY>>) :
             target \in {StrParam(<<"enemy">>), StrParam(<<"bogus">>), NumberValueNode(n1)}}

\* the statements of the blocks:  num x;  str x = "a";  const num y = 1;
\* x = 1;  y += x
BlockStatements ==
    {DeclarationNode(VariableValue(NUM, vX, FALSE), NoNode),
     DeclarationNode(VariableValue(STR, vX, FALSE), StringValueNode(sA)),
     DeclarationNode(VariableValue(NUM, vY, TRUE), NumberValueNode(n1)),
     RwAssignmentNode(vX, "=", NumberValueNode(n1)),
     RwAssignmentNode(vY, "+=", VariableValueNode(vX))}

\* a block of statements, and a block in a block
Blocks ==
    {CodeBlockNode(nodes, kBlock) : nodes \in {<<>>} \cup SeqsUpTo(BlockStatements, MaxBlock)}
    \cup {CodeBlockNode(<<s, CodeBlockNode(<<t>>, kBlock)>>, kBlock) :
             s \in BlockStatements, t \in BlockStatements}

\* range x until 3 {},  range y until x { x = 1 },  ...
Ranges ==
    {RangeNode(kRange, var, until, CodeBlockNode(nodes, kRange)) :
        var \in {vX, vY}, until \in Operands,
        nodes \in {<<>>, <<RwAssignmentNode(vX, "=", NumberValueNode(n1))>>}}

\* return;  return 1;  return x;  of f and of h
ReturnNodes == {ReturnNode(func, value) : func \in {vF, vH}, value \in {NoNode} \cup Operands}

\* function f(num a): num { return a },  function h() {}
Functions ==
    {FunctionNode(vF, <<[name |-> vA, type |-> NUM]>>, NUM,
                  CodeBlockNode(<<ReturnNode(vF, VariableValueNode(vA))>>, vF)),
     FunctionNode(vH, <<>>, NULL, CodeBlockNode(<<>>, vH))}

\* the functions bound in the scope of the program when generation starts:
\* none, or  f(any a, num b): num
BoundFunctions ==
    {{}, {Function(vF, <<[name |-> vA, type |-> ANY], [name |-> vB, type |-> NUM]>>, NUM)}}

NodeInit ==
    /\ \E funs \in BoundFunctions : scopes = <<[name |-> <<"main">>, binds |-> funs]>>
    /\ gtmp = 0
    /\ nlast = NoNode
    /\ nins = <<>>
    /\ nexc = NoError
    /\ npc = "gen"
    /\ ncount = 0
    /\ prog = <<>> /\ linked = [labels |-> EmptyDict, text |-> <<>>] /\ lpc = "idle"
    /\ IdleControl
    /\ IdleRun
    /\ code = <<>>
    /\ tmpv = 0
    /\ options = [enable |-> TRUE, unused |-> TRUE]
    /\ pc = "idle"
    /\ outer = 0
    /\ inner = 1
    /\ found = FALSE
    /\ last = NoPass
    /\ prev = <<>>
    /\ resolved = <<>>
    /\ output = <<>>
    /\ exc = "none"

\* the call of n.generate(), or of n.get(), returned r or raised r.exc
NodeReturns(n, r) ==
    /\ scopes' = r.sc
    /\ gtmp' = r.tmp
    /\ nlast' = n
    /\ nins' = r.ins
    /\ nexc' = r.exc
    /\ npc' = IF Failed(r) THEN "raised" ELSE "gen"
    /\ ncount' = ncount + 1
    /\ UNCHANGED <<gvars, prog, linked, lpc, cvars, xvars>>

Generating == npc = "gen" /\ ncount < MaxNodes

GenerateDeclaration ==
    /\ Generating
    /\ \E n \in Declarations :
          \E r \in {DeclarationNode_generate(n, GenState(scopes, gtmp))} : NodeReturns(n, r)

GenerateAssignment ==
    /\ Generating
    /\ \E n \in Assignments :
          \E r \in {AssignmentNode_generate(n, GenState(scopes, gtmp))} : NodeReturns(n, r)

GetBinaryOp ==
    /\ Generating
    /\ \E n \in BinaryOps :
          \E r \in {BinaryOpNode_get(n, GenState(scopes, gtmp))} : NodeReturns(n, r)

GetUnaryOp ==
    /\ Generating
    /\ \E n \in UnaryOps :
          \E r \in {UnaryOpNode_get(n, GenState(scopes, gtmp))} : NodeReturns(n, r)

GenerateCall ==
    /\ Generating
    /\ \E n \in Calls :
          \E r \in {CallNode_generate(n, GenState(scopes, gtmp))} : NodeReturns(n, r)

GenerateNativeCall ==
    /\ Generating
    /\ \E n \in NativeCalls :
          \E r \in {NativeCallNode_generate_native(n, GenState(scopes, gtmp))} : NodeReturns(n, r)

GenerateCodeBlock ==
    /\ Generating
    /\ \E n \in Blocks :
          \E r \in {CodeBlockNode_generate(n, GenState(scopes, gtmp))} : NodeReturns(n, r)

GenerateRange ==
    /\ Generating
    /\ \E n \in Ranges :
          \E r \in {RangeNode_generate(n, GenState(scopes, gtmp))} : NodeReturns(n, r)

GenerateFunction ==
    /\ Generating
    /\ \E n \in Functions :
          \E r \in {FunctionNode_generate(n, GenState(scopes, gtmp))} : NodeReturns(n, r)

GenerateReturn ==
    /\ Generating
    /\ \E n \in ReturnNodes :
          \E r \in {ReturnNode_generate(n, GenState(scopes, gtmp))} : NodeReturns(n, r)

NodeNext ==
    \/ GenerateDeclaration \/ GenerateAssignment \/ GetBinaryOp \/ GenerateCall
    \/ GenerateNativeCall \/ GenerateCodeBlock \/ GenerateRange \/ GenerateFunction
    \/ GenerateReturn \/ GetUnaryOp

SpecNode == NodeInit /\ [][NodeNext]_vars

(***************************************************************************)
(* The claims about the typed nodes, checked under SpecNode.  A step of    *)
(* SpecNode generates the node nlast' in the scopes of the state it leaves.*)
(***************************************************************************)
\* what get() of a value node yields in the scopes sc
Yields(n, sc) == NodeGet(n, GenState(sc, gtmp))

\* a declaration with an initializer that reaches the test of the types:
\* the name is free and the initializer has a value
DeclaresValue(n) ==
    /\ n.node = "DeclarationNode"
    /\ n.value.node # "None"
    /\ ScopesGet(scopes, n.var.name).class = "None"
    /\ ~Failed(Yields(n.value, ScopesAdd(scopes, n.var)))

\* a plain assignment that reaches the test of the types: the target is a
\* variable that is not const and the right side has a value
AssignsValue(n) ==
    /\ n.node = "AssignmentNode"
    /\ n.op = "="
    /\ ScopesGet(scopes, n.var).class = "VariableValue"
    /\ ~ScopesGet(scopes, n.var).const
    /\ ~Failed(Yields(n.value, scopes))

\* the step accepts the value of type V for the declared type T exactly when
\* ok, and rejects it with IncompatibleTypes(found = V, expected = T)
TypeTest(V, T, ok) ==
    IF ok THEN nexc'.kind = "none" ELSE nexc' = incompatible_types(V, T)

BoundInnermost(sc, name) == \E e \in sc[Len(sc)].binds : e.name = name

\* C12: a declaration of a name that the same scope binds already raises
\* AlreadyDefinedVariable and adds no binding, and the declaration, in a
\* child scope, of a name that only an outer scope binds succeeds.
C12_RedeclarationRaisesShadowingSucceeds ==
    [][/\ (nlast'.node = "DeclarationNode" /\ BoundInnermost(scopes, nlast'.var.name)) =>
              (nexc'.kind = "AlreadyDefinedVariable" /\ scopes' = scopes)
       /\ (/\ nlast'.node = "CodeBlockNode"
           /\ Len(nlast'.code) = 1
           /\ nlast'.code[1].node = "DeclarationNode"
           /\ nlast'.code[1].value.node = "None"
           /\ BoundInnermost(scopes, nlast'.code[1].var.name)) =>
              (/\ nexc'.kind = "none"
               /\ ScopesGet(scopes', nlast'.code[1].var.name)
                      = ScopesGet(scopes, nlast'.code[1].var.name))]_vars

\* the values an instruction writes
Destinations(ins) ==
    CASE ins.type = "SET" -> {ins.params[1]}
      [] ins.type = "OP" -> {ins.params[2]}
      [] ins.type = "GETLINK" -> {ins.params[1]}
      [] ins.type = "UCONTROL" -> {ins.params[4], ins.params[5]}
      [] OTHER -> {}

\* the variable is bound const in the scopes
ConstIn(sc, name) ==
    ScopesGet(sc, name).class = "VariableValue" /\ ScopesGet(sc, name).const

\* C13: no instruction that is generated writes a variable that is const:
\* not for an assignment, plain or compound, not for an argument of a native
\* call that is an output away from the return position, and not for the
\* counter of a range loop.
C13_NoWriteToConst ==
    [][\A i \in 1..Len(nins') :
           \A d \in Destinations(nins'[i]) : ~ConstIn(scopes, d.name)]_vars

\* every operand of the node has a value in the scopes
OperandsYield(n) ==
    /\ ~Failed(Yields(n.left, scopes))
    /\ \A i \in 1..Len(n.right) : ~Failed(Yields(n.right[i].node, scopes))

\* the types of the two operands of the i-th operator: the left operand of
\* the node, or the temporary that holds the result so far, and the i-th
\* operand of the right side
LeftType(n, i) == IF i = 1 THEN Yields(n.left, scopes).val.type ELSE NUM
RightType(n, i) == Yields(n.right[i].node, scopes).val.type

\* C14: a BinaryOpNode whose operators are all of the equality class is
\* accepted whatever the types of its operands, and one that has an operator
\* outside the equality class with an operand that is not NUM raises
\* IncompatibleTypes.
C14_EqualityAcceptsAnyOperands ==
    [][(nlast'.node = "BinaryOpNode" /\ Len(nlast'.right) > 0 /\ OperandsYield(nlast')) =>
           /\ (\A i \in 1..Len(nlast'.right) : nlast'.right[i].op \in EQUALITY) =>
                  nexc'.kind = "none"
           /\ (\E i \in 1..Len(nlast'.right) :
                   /\ nlast'.right[i].op \notin EQUALITY
                   /\ (LeftType(nlast', i) # NUM \/ RightType(nlast', i) # NUM)) =>
                  nexc'.kind = "IncompatibleTypes"]_vars

\* every argument of the call has a value in the scopes
ArgumentsYield(n) == \A i \in 1..Len(n.params) : ~Failed(Yields(n.params[i], scopes))

\* the arguments whose type is not the type of their parameter
Mismatches(n, fun) ==
    {i \in 1..Len(n.params) : Yields(n.params[i], scopes).val.type # fun.params[i].type}

\* the error the checks of a call come to, the first check that is violated
\* deciding: the callee, then the number of arguments, then their types
CallError(n, fun) ==
    IF fun.class # "Function" THEN Error("UndefinedFunction")
    ELSE IF Len(n.params) # Len(fun.params)
         THEN invalid_arg_count(Len(n.params), Len(fun.params))
    ELSE IF Mismatches(n, fun) # {}
         THEN incompatible_types(
                  Yields(n.params[CHOOSE i \in Mismatches(n, fun) :
                                      \A j \in Mismatches(n, fun) : i <= j], scopes).val.type,
                  fun.params[CHOOSE i \in Mismatches(n, fun) :
                                 \A j \in Mismatches(n, fun) : i <= j].type)
    ELSE NoError

\* C15: a call of a user function is accepted only if the callee is a
\* Function, the number of arguments is the number of parameters and the
\* type of each argument equals the type of its parameter; otherwise it
\* raises UndefinedFunction, InvalidArgumentCount(found, expected) or
\* IncompatibleTypes, the first of these checks that is violated deciding.
C15_CallChecksInOrder ==
    [][(nlast'.node = "CallNode" /\ ArgumentsYield(nlast')) =>
           nexc' = CallError(nlast', ScopesGet(scopes, nlast'.name))]_vars

\* a call with as many arguments as parameters, each of the type of its
\* parameter, was accepted: f(x, 1) with x declared any
C15_CallAccepted ==
    /\ nlast.node = "CallNode"
    /\ Len(nlast.params) = 2
    /\ nlast.params[1].node = "VariableValueNode"
    /\ nexc.kind = "none"
    /\ Len(nins) = 4

\* ---------------------------------------------------------------------
\* C16, C17: function definitions and return statements
\* ---------------------------------------------------------------------

SetCounter(name) ==
    MInstruction("SET", <<VariableValue(NUM, kCounter, FALSE),
                          VariableValue(NUM, FunRet(name), FALSE)>>)

\* C16: a function definition generates, and its instructions are the jump
\* over the definition to __f_<name>_end, the entry label __f_<name>, the
\* body, the return through @counter and the end label, so that the body
\* is entered only by the jump of a call and control resumes after it.
C16_DefinitionSkippedCallReturns ==
    nlast.node = "FunctionNode" =>
        /\ nexc.kind = "none"
        /\ Len(nins) >= 4
        /\ nins[1] = MppInstructionJump(FunEnd(nlast.name))
        /\ nins[2] = MppLabel(FunLabel(nlast.name))
        /\ nins[Len(nins) - 1] = SetCounter(nlast.name)
        /\ nins[Len(nins)] = MppLabel(FunEnd(nlast.name))

\* C17: a return statement is accepted only for a function, and every
\* accepted return, with or without a value, ends by setting @counter to
\* the saved return address __f_<name>_ret of that function.
C17_ReturnSetsCounter ==
    nlast.node = "ReturnNode" =>
        IF ScopesGet(scopes, nlast.func).class # "Function"
        THEN nexc.kind # "none"
        ELSE nexc.kind = "none" =>
                 /\ Len(nins) >= 1
                 /\ nins[Len(nins)] = SetCounter(nlast.func)

(***************************************************************************)
(* Generator.optimize as a function of the text: the schedule of passes    *)
(* that the actions of Spec walk through, run to its end.  RepeatNode      *)
(* calls it on the code it generated to decide whether to unroll.          *)
(***************************************************************************)
\* for _ in range(1, 101): _single_tmp_optimize(tmp, 1), until nothing is found
RECURSIVE SingleUntil(_, _, _)
SingleUntilNext(r, k, tv) ==
    IF r.exc # "none" \/ ~r.found \/ k = SingleTries THEN r ELSE SingleUntil(r.text, k + 1, tv)

SingleUntil(tmp, k, tv) == SingleUntilNext(SingleTmpOptimize(tmp, 1, tv), k, tv)

\* for i in range(1, 11): _single_tmp_optimize(tmp, i)
RECURSIVE SingleWindows(_, _, _)
SingleWindows(r, i, tv) ==
    IF r.exc # "none" \/ i > MaxWindow THEN r
    ELSE SingleWindows(SingleTmpOptimize(r.text, i, tv), i + 1, tv)

\* for _ in range(1, 11): _negative_optimize(tmp)
RECURSIVE Negatives(_, _)
Negatives(r, k) ==
    IF r.exc # "none" \/ k > NegativeTries THEN r ELSE Negatives(NegativeOptimize(r.text), k + 1)

\* for i in range(1, 101): _forward_use_optimize(tmp, i), until nothing is found
RECURSIVE ForwardUntil(_, _)
ForwardUntilNext(r, i) ==
    IF r.exc # "none" \/ ~r.found \/ i = ForwardTries THEN r ELSE ForwardUntil(r.text, i + 1)

ForwardUntil(tmp, i) == ForwardUntilNext(ForwardUseOptimize(tmp, i), i)

ForwardFrom(r) == IF r.exc # "none" THEN r ELSE ForwardUntil(r.text, 1)

\* for _ in range(1, 101): _unused_optimize(tmp), until nothing is found
RECURSIVE UnusedUntil(_, _)
UnusedUntilNext(r, k) ==
    IF r.exc # "none" \/ ~r.found \/ k = UnusedTries THEN r ELSE UnusedUntil(r.text, k + 1)

UnusedUntil(tmp, k) == UnusedUntilNext(UnusedOptimize(tmp), k)

UnusedFrom(r) == IF r.exc # "none" THEN r ELSE UnusedUntil(r.text, 1)

\* one round of the first loop, and one of the second
FirstRound(tmp, tv) == Negatives(SingleWindows(SingleUntil(tmp, 1, tv), 1, tv), 1)
SecondRound(tmp, tv) == ForwardFrom(SingleWindows(PrecalcOptimize(tmp), 1, tv))

\* for _ in range(10): a round.  A round is a function of the text, so the
\* rounds that follow one that left the text as it was leave it too.
RECURSIVE FirstRounds(_, _, _)
FirstRoundsNext(tmp, r, k, tv) ==
    IF r.exc # "none" \/ k = Rounds \/ r.text = tmp THEN r ELSE FirstRounds(r.text, k + 1, tv)

FirstRounds(tmp, k, tv) == FirstRoundsNext(tmp, FirstRound(tmp, tv), k, tv)

RECURSIVE SecondRounds(_, _, _)
SecondRoundsNext(tmp, r, k, tv) ==
    IF r.exc # "none" \/ k = Rounds2 \/ r.text = tmp THEN r ELSE SecondRounds(r.text, k + 1, tv)

SecondRounds(tmp, k, tv) == SecondRoundsNext(tmp, SecondRound(tmp, tv), k, tv)

SecondFrom(r, tv) == IF r.exc # "none" THEN r ELSE SecondRounds(r.text, 1, tv)

\* optimize(code) with the default options
Optimize(tmp, tv) == UnusedFrom(SecondFrom(ForwardFrom(FirstRounds(tmp, 1, tv)), tv))

\* len(optimize(code).strip().splitlines())
OptimizedLines(r) == Len(SplitLines(Strip(r.text)))

(***************************************************************************)
(* Generator._generate on the control constructs: if, while, for, repeat,  *)
(* break and continue.  The context c of a call is self.tmpv, self.tmpl    *)
(* and self.loop_stack; a call returns its lines and the two counters, or  *)
(* the error it raised.                                                    *)
(***************************************************************************)
PlainNode == [node |-> "Node"]
ChangeNode(left, atype, right) ==
    [node |-> "Change", left |-> left, atype |-> atype, right |-> right]
IfElseNode(condition, nodes, elsecode) ==
    [node |-> "IfNode", condition |-> condition, code |-> nodes, elsecode |-> elsecode]
WhileLoopNode(condition, nodes) ==
    [node |-> "WhileNode", condition |-> condition, code |-> nodes]
ForNode(init, condition, action, nodes) ==
    [node |-> "ForNode", init |-> init, condition |-> condition, action |-> action,
     code |-> nodes]
RepeatNode(amount, nodes) == [node |-> "RepeatNode", amount |-> amount, code |-> nodes]
LoopActionNode(action) == [node |-> "LoopActionNode", action |-> action]

Context(tv, tl, loop_stack) == [tmpv |-> tv, tmpl |-> tl, loops |-> loop_stack]
Loop(l_v, l_e, action) == [top |-> l_v, end |-> l_e, action |-> action]

GenLines(lines, tv, tl) == [lines |-> lines, tmpv |-> tv, tmpl |-> tl, exc |-> "none"]
GenRaise(c, msg) == [lines |-> <<>>, tmpv |-> c.tmpv, tmpl |-> c.tmpl, exc |-> msg]
\* the context of the call that follows a call that returned r
After(r, c) == Context(r.tmpv, r.tmpl, c.loops)

JumpTo(label) == <<">">> \o label
JumpUnless(label, var) == Ln(<<<<">">> \o label, <<"!">> \o var>>)
LabelLine(label) == <<"<">> \o label

\* an assignment with = and a call of print, which hold no statement
GenPlain(n, s) == GenLines(s.lines, s.tmpv, s.tmpl)

\* += -= *= /= :  {tmp}\nop {op} {node.left} {node.left} {var}
ChangeOp(at) ==
    CASE at = "+=" -> kAdd [] at = "-=" -> kSub [] at = "*=" -> kMul [] at = "/=" -> kDiv

GenChangeOp(n, e) ==
    GenLines(e.lines \o <<Ln(<<kOp, ChangeOp(n.atype), n.left, n.left, e.var>>)>>, e.tmpv, e.tmpl)

GenChange(n, c) == GenChangeOp(n, GenExpression(n.right, c))

RECURSIVE CtlGenerate(_, _)
RECURSIVE CodeJoin(_, _)

\* _code_join: the lines of the nodes one after the other
CodeJoinAppend(r, rest) == IF rest.exc # "none" THEN rest ELSE [rest EXCEPT !.lines = r.lines \o @]

CodeJoinRest(nodes, c, r) ==
    IF r.exc # "none" THEN r ELSE CodeJoinAppend(r, CodeJoin(Tail(nodes), After(r, c)))

CodeJoin(nodes, c) ==
    IF nodes = <<>> THEN GenLines(<<>>, c.tmpv, c.tmpl)
    ELSE CodeJoinRest(nodes, c, CtlGenerate(Head(nodes), c))

\* IfNode without else: {tmp2}\n>{l_e} !{var}\n  code  \n<{l_e}
IfLines(e, l_e, b) ==
    IF b.exc # "none" THEN b
    ELSE [b EXCEPT !.lines = e.lines \o <<JumpUnless(l_e, e.var)>> \o @ \o <<LabelLine(l_e)>>]

\* IfNode with else:
\* {tmp2}\n>{l_s} !{var}\n  code  \n>{l_e}\n<{l_s}\n  elsecode  \n<{l_e}
IfElseLines(e, l_s, l_e, b, eb) ==
    IF eb.exc # "none" THEN eb
    ELSE [eb EXCEPT !.lines = e.lines \o <<JumpUnless(l_s, e.var)>> \o b.lines
                                 \o <<JumpTo(l_e), LabelLine(l_s)>> \o @ \o <<LabelLine(l_e)>>]

IfElseCode(n, c, e, b) ==
    IF b.exc # "none" THEN b
    ELSE IfElseLines(e, TmpLabel(e.tmpl + 1), TmpLabel(e.tmpl + 2), b,
                     CodeJoin(n.elsecode, After(b, c)))

GenIfNode(n, c, e) ==
    IF n.elsecode = <<>>
    THEN IfLines(e, TmpLabel(e.tmpl + 1), CodeJoin(n.code, Context(e.tmpv, e.tmpl + 1, c.loops)))
    ELSE IfElseCode(n, c, e, CodeJoin(n.code, Context(e.tmpv, e.tmpl + 2, c.loops)))

\* WhileNode: <{l_v}\n{tmp2}\n>{l_e} !{var}\n  code  \n>{l_v}\n<{l_e}
WhileLines(e, l_v, l_e, b) ==
    IF b.exc # "none" THEN b
    ELSE [b EXCEPT !.lines = <<LabelLine(l_v)>> \o e.lines \o <<JumpUnless(l_e, e.var)>>
                                \o @ \o <<JumpTo(l_v), LabelLine(l_e)>>]

\* self.loop_stack.append((l_v, l_e, Node()))
WhileCode(n, c, e, l_v, l_e) ==
    WhileLines(e, l_v, l_e,
               CodeJoin(n.code, Context(e.tmpv, e.tmpl + 2,
                                        Append(c.loops, Loop(l_v, l_e, PlainNode)))))

GenWhileNode(n, c, e) == WhileCode(n, c, e, TmpLabel(e.tmpl + 1), TmpLabel(e.tmpl + 2))

\* ForNode:
\* {itmp}\n<{l_v}\n{ctmp}\n>{l_e} !{cvar}\n  code  \n{atmp}\n>{l_v}\n<{l_e}
ForLines(i, e, a, l_v, l_e, b) ==
    IF b.exc # "none" THEN b
    ELSE [b EXCEPT !.lines = i.lines \o <<LabelLine(l_v)>> \o e.lines
                                \o <<JumpUnless(l_e, e.var)>> \o @ \o a.lines
                                \o <<JumpTo(l_v), LabelLine(l_e)>>]

\* self.loop_stack.append((l_v, l_e, node.action))
ForCode(n, c, i, e, a, l_v, l_e) ==
    ForLines(i, e, a, l_v, l_e,
             CodeJoin(n.code, Context(a.tmpv, a.tmpl + 2,
                                      Append(c.loops, Loop(l_v, l_e, n.action)))))

ForAction(n, c, i, e, a) ==
    IF a.exc # "none" THEN a
    ELSE ForCode(n, c, i, e, a, TmpLabel(a.tmpl + 1), TmpLabel(a.tmpl + 2))

ForCondition(n, c, i, e) == ForAction(n, c, i, e, CtlGenerate(n.action, After(e, c)))

ForInit(n, c, i) ==
    IF i.exc # "none" THEN i ELSE ForCondition(n, c, i, GenExpression(n.condition, After(i, c)))

GenForNode(n, c) == ForInit(n, c, CtlGenerate(n.init, c))

\* RepeatNode: the loop
\* op add {i} 0 1\n<{l_v}\nop add {i} {i} 1\n  code  \n>{l_e} {i} == {amount}\n>{l_v}\n<{l_e}
RepeatLoop(amount, i, l_v, l_e, gen) ==
    <<Ln(<<kOp, kAdd, i, n0, n1>>), LabelLine(l_v), Ln(<<kOp, kAdd, i, i, n1>>)>> \o gen
    \o <<Ln(<<JumpTo(l_e), i, <<"=","=">>, NatStr(amount)>>), JumpTo(l_v), LabelLine(l_e)>>

\* tmp = gen, then  tmp += "\n" + gen  amount - 1 times
RECURSIVE Unrolled(_, _)
Unrolled(gen, amount) == IF amount <= 1 THEN gen ELSE gen \o Unrolled(gen, amount - 1)

Text(lines) == Join(lines, <<NL>>)

\* unwind if it results in smaller code; ot and og are optimize(tmp) and optimize(gen)
RepeatChoice(n, b, loop, ot, og) ==
    IF ot.exc # "none" THEN GenRaise(b, ot.exc)
    ELSE IF og.exc # "none" THEN GenRaise(b, og.exc)
    ELSE IF OptimizedLines(ot) - 2 >= n.amount * OptimizedLines(og)
         THEN [b EXCEPT !.lines = Unrolled(b.lines, n.amount)]
         ELSE [b EXCEPT !.lines = loop]

RepeatOptimize(n, b, loop) ==
    RepeatChoice(n, b, loop, Optimize(Text(loop), b.tmpv), Optimize(Text(b.lines), b.tmpv))

RepeatCode(n, l_v, l_e, i, b) ==
    IF b.exc # "none" THEN b ELSE RepeatOptimize(n, b, RepeatLoop(n.amount, i, l_v, l_e, b.lines))

GenRepeatNode(n, c) ==
    IF n.amount = 0 THEN GenLines(<<>>, c.tmpv, c.tmpl)
    ELSE RepeatCode(n, TmpLabel(c.tmpl + 1), TmpLabel(c.tmpl + 2), TmpVar(c.tmpv + 1),
                    CodeJoin(n.code, Context(c.tmpv + 1, c.tmpl + 2, c.loops)))

\* LoopActionNode: >{loop[1]}  or  {self._generate(loop[2])}\n>{loop[0]}
ContinueLines(loop, a) ==
    IF a.exc # "none" THEN a ELSE [a EXCEPT !.lines = @ \o <<JumpTo(loop.top)>>]

LoopAction(n, c, loop) ==
    IF n.action = "break" THEN GenLines(<<JumpTo(loop.end)>>, c.tmpv, c.tmpl)
    ELSE ContinueLines(loop, CtlGenerate(loop.action, c))

GenLoopActionNode(n, c) ==
    IF c.loops = <<>> THEN GenRaise(c, "Cannot break or continue when not in a loop")
    ELSE LoopAction(n, c, c.loops[Len(c.loops)])

CtlGenerate(n, c) ==
    CASE n.node = "Node" -> GenRaise(c, "Invalid node")
      [] n.node \in {"Assignment", "Call"} -> GenPlain(n, GenSimple(n, c))
      [] n.node = "Change" -> GenChange(n, c)
      [] n.node = "IfNode" -> GenIfNode(n, c, GenExpression(n.condition, c))
      [] n.node = "WhileNode" -> GenWhileNode(n, c, GenExpression(n.condition, c))
      [] n.node = "ForNode" -> GenForNode(n, c)
      [] n.node = "RepeatNode" -> GenRepeatNode(n, c)
      [] n.node = "LoopActionNode" -> GenLoopActionNode(n, c)

(***************************************************************************)
(* generate() up to its call of _code_node_join, on programs made of the   *)
(* control constructs.                                                     *)
(***************************************************************************)
\* the statements of a body
MaxBody == 2
\* the amount of a repeat
Amount == 2

vI == <<"i">>

\* print(x2);  break;  continue
Plain == {PrintCall(ValueNode(vX2)), LoopActionNode("break"), LoopActionNode("continue")}

\* while (x2) {..}   for (i = 0; i < 3; i += 1) {..}   if (x2) {..}
\* if (x2) {..} else { print(x2) }   repeat (Amount) {..}
Constructs(bodies) ==
    {WhileLoopNode(ValueNode(vX2), b) : b \in bodies}
    \cup {ForNode(AssignmentNode(vI, ValueNode(n0)),
                  BinaryNode(kLessThan, ValueNode(vI), ValueNode(n3)),
                  ChangeNode(vI, "+=", ValueNode(n1)), b) : b \in bodies}
    \cup {IfElseNode(ValueNode(vX2), b, e) :
              b \in bodies, e \in {<<>>, <<PrintCall(ValueNode(vX2))>>}}
    \cup {RepeatNode(Amount, b) : b \in bodies}

\* a construct around plain statements, and a construct around one of those
Flat == Constructs(SeqsUpTo(Plain, MaxBody))
Small == Constructs({<<s>> : s \in Plain})
Nested == Constructs({<<n>> : n \in Small})

\* a program: one statement, or two constructs one after the other
ControlPrograms ==
    {<<s>> : s \in Plain \cup Flat \cup Nested} \cup {<<a, b>> : a \in Small, b \in Small}

IdleOptimizer ==
    /\ code = <<>>
    /\ tmpv = 0
    /\ options = [enable |-> TRUE, unused |-> TRUE]
    /\ pc = "idle"
    /\ outer = 0
    /\ inner = 1
    /\ found = FALSE
    /\ last = NoPass
    /\ prev = <<>>
    /\ resolved = <<>>
    /\ output = <<>>
    /\ exc = "none"

ControlInit ==
    /\ cnodes \in ControlPrograms
    /\ clines = <<>>
    /\ cexc = "none"
    /\ cpc = "join"
    /\ prog = <<>> /\ linked = [labels |-> EmptyDict, text |-> <<>>] /\ lpc = "idle"
    /\ IdleNodes
    /\ IdleRun
    /\ IdleOptimizer

\* code = self._code_node_join(node), with the counters and the stacks as
\* generate() set them
CodeNodeJoin ==
    /\ cpc = "join"
    /\ \E r \in {CodeJoin(cnodes, Context(0, 0, <<>>))} :
          /\ clines' = r.lines
          /\ cexc' = r.exc
          /\ cpc' = IF r.exc = "none" THEN "joined" ELSE "raised"
    /\ UNCHANGED <<cnodes, gvars, prog, linked, lpc, nvars, xvars>>

ControlNext == CodeNodeJoin

SpecControl == ControlInit /\ [][ControlNext]_vars

\* ---------------------------------------------------------------------
\* C18, C19: the labels of the control constructs
\* ---------------------------------------------------------------------

\* every break and continue of the nodes lies in a while or a for loop
RECURSIVE AllEnclosed(_, _)
NodeEnclosed(n, inLoop) ==
    CASE n.node = "LoopActionNode" -> inLoop
      [] n.node \in {"WhileNode", "ForNode"} -> AllEnclosed(n.code, TRUE)
      [] n.node = "IfNode" -> AllEnclosed(n.code, inLoop) /\ AllEnclosed(n.elsecode, inLoop)
      [] n.node = "RepeatNode" -> AllEnclosed(n.code, inLoop)
      [] OTHER -> TRUE

AllEnclosed(nodes, inLoop) == \A k \in 1..Len(nodes) : NodeEnclosed(nodes[k], inLoop)

\* the lines p..e of the text are a loop with the labels __mpp<j> and
\* __mpp<j+1>: its top label, then the jump out of it on its condition,
\* then its end label, and neither label in between
IsLoop(lines, p, e, j) ==
    /\ p < e
    /\ lines[p] = LabelLine(TmpLabel(j))
    /\ lines[e] = LabelLine(TmpLabel(j + 1))
    /\ \E k \in p + 1..e - 1 : StartsWith(lines[k], JumpTo(TmpLabel(j + 1)) \o <<SP, "!">>)
    /\ \A k \in p + 1..e - 1 : lines[k] \notin {lines[p], lines[e]}

LoopsAround(lines, k) ==
    {l \in (1..k - 1) \X (k + 1..Len(lines)) \X (1..Len(lines)) : IsLoop(lines, l[1], l[2], l[3])}

Innermost(loops) == CHOOSE l \in loops : \A m \in loops : m[1] <= l[1]

\* line k is the jump of a break, a continue or the end of a while or for
\* loop: a jump without a condition that is neither the jump over the else
\* branch of an if nor the jump back of a repeat, which follows the test of
\* the repeat's counter
IsLoopJump(lines, k) ==
    /\ Head(lines[k]) = ">"
    /\ SP \notin {lines[k][i] : i \in 1..Len(lines[k])}
    /\ ~(k > 1 /\ FindFrom(lines[k - 1], <<SP, "=", "=", SP>>, 1) # 0)
    /\ ~(k < Len(lines) /\ Head(lines[k + 1]) = "<"
           /\ \E j \in 1..Len(lines) : /\ lines[k] = JumpTo(TmpLabel(j + 1))
                                       /\ lines[k + 1] = LabelLine(TmpLabel(j)))

TargetsInnermost(lines, k, loops) ==
    /\ loops # {}
    /\ lines[k] \in {JumpTo(TmpLabel(Innermost(loops)[3])),
                     JumpTo(TmpLabel(Innermost(loops)[3] + 1))}

JumpsTargetInnermost(lines) ==
    \A k \in 1..Len(lines) :
        IsLoopJump(lines, k) => TargetsInnermost(lines, k, LoopsAround(lines, k))

\* C18: a program generates unless a break or continue of it lies in no
\* while or for loop, and every jump a break, a continue or the end of a
\* loop emits goes to the top or the end label of the innermost loop
\* around it; so a continue in a while loop compiles to a jump.
C18_LoopJumpsTargetInnermost ==
    cpc \in {"joined", "raised"} =>
        /\ (cexc = "none") <=> AllEnclosed(cnodes, FALSE)
        /\ cexc = "none" => JumpsTargetInnermost(clines)

\* the second half alone, for the programs that generate
AcceptedJumpsTargetInnermost == cpc = "joined" => JumpsTargetInnermost(clines)

\* C19: no label is defined twice in the generated code
IsLabel(ln) == Head(ln) = "<"

C19_LabelsDefinedOnce ==
    cpc = "joined" =>
        \A i, k \in 1..Len(clines) : (i < k /\ IsLabel(clines[i])) => clines[i] # clines[k]

(***************************************************************************)
(* The instructions RangeNode.generate returns, run on the processor: set, *)
(* op, the jumps and the labels, a label standing for the place of the     *)
(* instruction that follows it.  The run ends when @counter leaves the     *)
(* instructions of the loop.                                               *)
(***************************************************************************)
\* the values of the bound are -MaxUntil..MaxUntil
MaxUntil == 3

vN == <<"n">>

RunNames == {vX, vY, vN, TempVar(1, NUM).name}

\* the value of an operand of an instruction
OperandValue(mem, v) == IF v.class = "NumberValue" THEN DigitsVal(v.name) ELSE mem[v.name]

Compare(op, a, b) ==
    CASE op = "greaterThanEq" -> a >= b
      [] op = "greaterThan" -> a > b
      [] op = "lessThan" -> a < b
      [] op = "equal" -> a = b
      [] op = "notEqual" -> a # b

Arith(op, a, b) == CASE op = "add" -> a + b [] op = "sub" -> a - b

LabelAt(ins, label) == CHOOSE i \in 1..Len(ins) : ins[i] = MppLabel(label.name)

\* one instruction: the variables and @counter after it
InstructionExec(ins, mem, counter) ==
    CASE ins[counter].type = "SET" ->
            [mem |-> [mem EXCEPT ![ins[counter].params[1].name] =
                                     OperandValue(mem, ins[counter].params[2])],
             counter |-> counter + 1]
      [] ins[counter].type = "OP" ->
            [mem |-> [mem EXCEPT ![ins[counter].params[2].name] =
                                     Arith(ins[counter].params[1].name[1],
                                           OperandValue(mem, ins[counter].params[3]),
                                           OperandValue(mem, ins[counter].params[4]))],
             counter |-> counter + 1]
      [] ins[counter].type = "MppInstructionJump" ->
            [mem |-> mem, counter |-> LabelAt(ins, ins[counter].params[1])]
      [] ins[counter].type = "MppInstructionOJump" ->
            [mem |-> mem,
             counter |-> IF Compare(ins[counter].params[3].name[1],
                                    OperandValue(mem, ins[counter].params[2]),
                                    OperandValue(mem, ins[counter].params[4]))
                         THEN LabelAt(ins, ins[counter].params[1])
                         ELSE counter + 1]
      [] OTHER -> [mem |-> mem, counter |-> counter + 1]

\* the place of the jump that tests the bound, and of the body behind it
TestAt(ins) == CHOOSE k \in 1..Len(ins) : ins[k].type = "MppInstructionOJump"
BodyAt(ins) == TestAt(ins) + 1

\* range x until n {..},  until 2,  until n + 1 ;  with the bodies
\* {},  { print(n) }  and  { y = n; print(y) }
RunUntils ==
    {VariableValueNode(vN), NumberValueNode(n2),
     BinaryOpNode(VariableValueNode(vN), <<[op |-> "+", node |-> NumberValueNode(n1)]>>)}

RunBodies ==
    {<<>>, <<NativeCallNode("print", <<VariableValueNode(vN)>>)>>,
     <<RwAssignmentNode(vY, "=", VariableValueNode(vN)),
       NativeCallNode("print", <<VariableValueNode(vY)>>)>>}

RunRanges ==
    {RangeNode(kRange, vX, until, CodeBlockNode(nodes, kRange)) :
        until \in RunUntils, nodes \in RunBodies}

\* num n;  num y
RunScopes ==
    <<[name |-> <<"main">>,
       binds |-> {VariableValue(NUM, vN, FALSE), VariableValue(NUM, vY, FALSE)}]>>

RunInit ==
    /\ rnode \in RunRanges
    /\ rins = <<>>
    /\ \E n \in (0 - MaxUntil)..MaxUntil : rmem = [v \in RunNames |-> IF v = vN THEN n ELSE 0]
    /\ rcounter = 0
    /\ rbody = 0
    /\ rpc = "gen"
    /\ scopes = RunScopes
    /\ gtmp = 0
    /\ nlast = [node |-> "none"]
    /\ nins = <<>>
    /\ nexc = [kind |-> "none"]
    /\ npc = "idle"
    /\ ncount = 0
    /\ prog = <<>> /\ linked = [labels |-> EmptyDict, text |-> <<>>] /\ lpc = "idle"
    /\ IdleControl
    /\ IdleOptimizer

\* rnode.generate() returns the instructions, which are loaded
RangeGenerate ==
    /\ rpc = "gen"
    /\ \E r \in {RangeNode_generate(rnode, GenState(scopes, gtmp))} :
          /\ scopes' = r.sc
          /\ gtmp' = r.tmp
          /\ rins' = r.ins
          /\ rcounter' = 1
          /\ rpc' = IF Failed(r) THEN "raised" ELSE "run"
    /\ UNCHANGED <<rnode, rmem, rbody, nlast, nins, nexc, npc, ncount,
                   gvars, prog, linked, lpc, cvars>>

\* the processor runs the instruction at @counter
Execute ==
    /\ rpc = "run"
    /\ \E r \in {InstructionExec(rins, rmem, rcounter)} :
          /\ rmem' = r.mem
          /\ rcounter' = r.counter
          /\ rpc' = IF r.counter > Len(rins) THEN "halted" ELSE "run"
    /\ rbody' = IF rcounter = BodyAt(rins) THEN rbody + 1 ELSE rbody
    /\ UNCHANGED <<rnode, rins, gvars, prog, linked, lpc, nvars, cvars>>

RunNext == RangeGenerate \/ Execute

SpecRun == RunInit /\ [][RunNext]_vars

\* the processor does not stop before the end of the instructions
FairRun == SpecRun /\ WF_vars(Execute)

\* ---------------------------------------------------------------------
\* C20: the range loop
\* ---------------------------------------------------------------------

Max0(n) == IF n > 0 THEN n ELSE 0

\* N: the value of the bound of the loop
UntilValue(until, mem) ==
    CASE until.node = "NumberValueNode" -> DigitsVal(until.value)
      [] until.node = "VariableValueNode" -> mem[until.value]
      [] until.node = "BinaryOpNode" -> mem[until.left.value] + DigitsVal(until.right[1].node.value)

RangeVariable == VariableValue(NUM, rnode.var, FALSE)

\* the order of the instructions, the jump that tests the bound being at k
RangeLayout(ins, k) ==
    /\ ins[1] = MInstruction("SET", <<RangeVariable, NumberValue(n0)>>)
    /\ ins[2] = MppLabel(rnode.name \o <<"_s">>)
    /\ 2 < k /\ k <= Len(ins) - 3
    /\ \A i \in 3..k - 1 : ins[i].type \in {"SET", "OP"}
    /\ ins[k].params[1] = Str(rnode.name \o <<"_e">>)
    /\ ins[k].params[2] = RangeVariable
    /\ ins[k].params[3] = Word("greaterThanEq")
    /\ Len(ins) - 3 - k = Len(rnode.code.code)
    /\ \A i \in k + 1..Len(ins) - 3 : ins[i].type \in {"SET", "PRINT"}
    /\ ins[Len(ins) - 2] = MInstruction("OP", <<Word("add"), RangeVariable, RangeVariable,
                                                 NumberValue(n1)>>)
    /\ ins[Len(ins) - 1] = MppInstructionJump(rnode.name \o <<"_s">>)
    /\ ins[Len(ins)] = MppLabel(rnode.name \o <<"_e">>)

\* the body is entered from the test only, with the variable below the bound
TestedBefore ==
    (rpc' = "run" /\ rcounter' = BodyAt(rins')) =>
        /\ rpc = "run"
        /\ rcounter = TestAt(rins)
        /\ rmem[rnode.var] < UntilValue(rnode.until, rmem)

\* C20: range var until N { body } is emitted as set var 0, the top label,
\* the code of N, the jump to the end label when var >= N, the body,
\* op add var var 1, the jump to the top label and the end label; run with
\* a body that leaves var alone, the code comes to its end, the body having
\* been entered max(N, 0) times, each time right after the test of the bound.
C20_RangeRunsBodyMaxNTimes ==
    /\ [](rpc \in {"run", "halted"} => RangeLayout(rins, TestAt(rins)))
    /\ [][TestedBefore]_vars
    /\ [](rpc = "halted" => rbody = Max0(UntilValue(rnode.until, rmem)))
    /\ (rpc = "run") ~> (rpc = "halted")

\* a loop until 3 with a body of two statements came to its end
C20_RanThreeTimes ==
    /\ rpc = "halted"
    /\ rbody = 3
    /\ UntilValue(rnode.until, rmem) = 3
    /\ Len(rnode.code.code) = 2

\* ---------------------------------------------------------------------
\* C21: the CONFIG positions of a native call
\* ---------------------------------------------------------------------

\* the positions of the signature that are CONFIG
ConfigPositions(nat) == {i \in 1..Len(nat) : nat[i].param = "CONFIG"}

\* the argument at position i is one of the keywords of that position
IsKeyword(n, nat, i) == n.params[i].node = "str" /\ n.params[i].value \in nat[i].type

\* the operands of the one instruction the call emitted
CallOperands == Len(nins[Len(nins)].params)

Dotted(name) == name = "ucontrol.getBlock"

\* C21: a call of a native with a CONFIG position whose argument there is
\* none of the keywords of that position is rejected, and an accepted call
\* emits an instruction with one operand for each position of the
\* signature (and the sub-command for a dotted native).
C21_ConfigValidated ==
    (/\ nlast.node = "NativeCallNode"
     /\ nlast.name \in NativeNames
     /\ Len(nlast.params) = Len(NATIVES(nlast.name))) =>
        /\ (\E i \in ConfigPositions(NATIVES(nlast.name)) :
               ~IsKeyword(nlast, NATIVES(nlast.name), i)) => nexc.kind # "none"
        /\ nexc.kind = "none" =>
               /\ nins # <<>>
               /\ CallOperands = Len(NATIVES(nlast.name)) + IF Dotted(nlast.name) THEN 1 ELSE 0

\* ---------------------------------------------------------------------
\* C22: the equality of Values
\* ---------------------------------------------------------------------

\* the step is a get() of a binary operation with operators that returned
BinaryReturned ==
    /\ ncount' = ncount + 1
    /\ nlast'.node = "BinaryOpNode"
    /\ Len(nlast'.right) > 0
    /\ nexc'.kind = "none"

\* the left operand is a variable of the type and the name of the temporary
\* the call takes
LeftIsTemporary ==
    /\ nlast'.left.node = "VariableValueNode"
    /\ ScopesGet(scopes, nlast'.left.value).type = NUM
    /\ ScopesGet(scopes, nlast'.left.value).name = TempVar(gtmp + 1, NUM).name

\* the code of the call starts with the copy of the left operand
SetEmitted == nins'[1].type = "SET"

\* C22: two Values of one class with the same fields are equal, so a binary
\* operation copies its left operand into the temporary unless the operand
\* is a variable with the type and the name of the temporary.
C22_SetOmittedIffSameVariable ==
    [][BinaryReturned => (~SetEmitted <=> LeftIsTemporary)]_vars


\* ---------------------------------------------------------------------
\* C23: unary operators
\* ---------------------------------------------------------------------

\* the step is a get() of a unary operation whose operand has a value
UnaryStep ==
    /\ ncount' = ncount + 1
    /\ nlast'.node = "UnaryOpNode"
    /\ ~Failed(ValueGet(nlast'.value, GenState(scopes, gtmp)))

\* the value of the operand
UnaryOperand == ValueGet(nlast'.value, GenState(scopes, gtmp)).val

\* the instruction the call emitted, and the handle it writes
UnaryEmitted == nins'[Len(nins')]
UnaryHandle == UnaryEmitted.params[2]

\* what the operator computes from x
UnaryComputes(op, x) ==
    CASE op = "-" -> <<Word("sub"), Zero, x>>
      [] op = "!" -> <<Word("notEqual"), x, Word("true")>>
      [] op = "~" -> <<Word("not"), x, Word("_")>>

\* the value the call returned
UnaryReturned == UnaryOpNode_get(nlast', GenState(scopes, gtmp)).val

\* C23: a unary operation on an operand that is not NUM raises
\* IncompatibleTypes; on a NUM operand x it emits one OP instruction that
\* computes sub 0 x, notEqual x true or not x _ into a handle, and the value
\* it returns is that handle.
C23_UnaryComputesFromOperand ==
    [][UnaryStep =>
          IF ~TypeIn(UnaryOperand.type, NUM) THEN nexc'.kind = "IncompatibleTypes"
          ELSE /\ nexc'.kind = "none"
               /\ nins' # <<>>
               /\ UnaryEmitted.type = "OP"
               /\ UnaryEmitted.params =
                      <<UnaryComputes(nlast'.op, UnaryOperand)[1], UnaryHandle,
                        UnaryComputes(nlast'.op, UnaryOperand)[2],
                        UnaryComputes(nlast'.op, UnaryOperand)[3]>>
               /\ UnaryReturned = UnaryHandle]_vars

\* ---------------------------------------------------------------------
\* C24: the flag of a pass
\* ---------------------------------------------------------------------

OptimizerPasses == {"single", "forward", "precalc", "unused", "negative"}

\* a pass was applied to the text prev and returned (code, found)
PassReturned == pc = "applied" /\ last.pass \in OptimizerPasses /\ exc = "none"

\* C24: the flag a pass returns is true exactly when the lines of the text
\* it returns are not the lines of the text it was given.
C24_FlagIffLinesChanged ==
    PassReturned => (found <=> SplitLines(code) # SplitLines(prev))

\* ---------------------------------------------------------------------
\* C25: the fusion of a comparison and the jump on its negation
\* ---------------------------------------------------------------------

\* the places of the line ln where name stands and no digit follows it
NamePlaces(ln, name) ==
    {p \in 1..Len(ln) :
        /\ p + Len(name) - 1 <= Len(ln)
        /\ SubSeq(ln, p, p + Len(name) - 1) = name
        /\ (p + Len(name) <= Len(ln) => ln[p + Len(name)] \notin DigitSet)}

\* how often the temporary name occurs in the lines lns
RECURSIVE TmpOccurrences(_, _)
TmpOccurrences(lns, name) ==
    IF lns = <<>> THEN 0
    ELSE Cardinality(NamePlaces(Head(lns), name)) + TmpOccurrences(Tail(lns), name)

\* line i compares into a temporary that occurs twice, and the line n
\* below jumps on its negation
ComparedThenJumped(lns, i, n) ==
    /\ i + n <= Len(lns)
    /\ ReTCOMP(lns[i])
    /\ ReTJUMP(lns[i + n])
    /\ Split(lns[i + n])[2] = <<"!">> \o Split(lns[i])[3]
    /\ TmpOccurrences(lns, Split(lns[i])[3]) = 2

\* the processor's test of a condition on two numbers
Condition(cond, a, b) ==
    CASE cond = kEqual -> a = b
      [] cond = kNotEqual -> a # b
      [] cond = kGreaterThan -> a > b
      [] cond = kLessThan -> a < b
      [] cond = kGreaterThanEq -> a >= b
      [] cond = kLessThanEq -> a <= b

\* the numbers the operands are tried with
Numbers == (0 - 2)..2

\* the words w are an operator-jump to the label of the jump j, on the
\* operands of the comparison c, taken exactly when c is false
FusedJump(w, c, j) ==
    /\ Len(w) = 4
    /\ w[1] = j[1]
    /\ w[2] = c[4]
    /\ w[4] = c[5]
    /\ w[3] \in {<<"=","=">>, <<"!","=">>, <<">">>, <<"<">>, <<">","=">>, <<"<","=">>}
    /\ \A a \in Numbers, b \in Numbers :
           Condition(JUMP_CONDITION(w[3]), a, b) <=> ~Condition(c[2], a, b)

\* the lines after hold the fusion of the pair at i and i + n of before
PairFused(before, i, n, after) ==
    /\ ~Holds(after, before[i])
    /\ ~Holds(after, before[i + n])
    /\ \E k \in 1..Len(after) : FusedJump(Split(after[k]), Split(before[i]), Split(before[i + n]))

DefinitionDeleted(before, i, after) ==
    /\ ReTMPS(before[i])
    /\ \A k \in 1..Len(before) : before[k] = before[i] => k = i
    /\ ~Holds(after, before[i])

\* the line assigns the variable v
Assigns(ln, v) == StoreLine(Split(ln)) /\ Destination(Split(ln)) = v

\* the first operand of the operation n lines below the definition at i is
\* the temporary defined there
OperandIsTemporary(lns, i, n) ==
    /\ i + n <= Len(lns)
    /\ Len(Split(lns[i + n])) = 5
    /\ Split(lns[i + n])[4] = Split(lns[i])[2]

\* no line between the definition at i and the operation assigns the value
\* of the definition, and none is a label
NothingBetween(lns, i, n) ==
    \A k \in (i + 1)..(i + n - 1) :
        k <= Len(lns) => ~Assigns(lns[k], Split(lns[i])[3]) /\ ~ReLABEL(lns[k])

\* C26: when _forward_use_optimize deletes a definition set __tmpN <v>, the
\* operand it overwrote with <v> in the operation n_lines below is __tmpN,
\* and no line between the two assigns <v> or is a label.
C26_FoldsOnlyTheTemporary ==
    (last.pass = "forward" /\ exc = "none") =>
        \A i \in 1..Len(SplitLines(prev)) :
            DefinitionDeleted(SplitLines(prev), i, SplitLines(code)) =>
                /\ OperandIsTemporary(SplitLines(prev), i, last.n)
                /\ NothingBetween(SplitLines(prev), i, last.n)

\* ---------------------------------------------------------------------
\* C27: the tokens a substitution changes
\* ---------------------------------------------------------------------

\* a word of the line is the name
Mentions(ln, name) == \E k \in 1..Len(Split(ln)) : Split(ln)[k] = name

\* the pass leaves the line in the text: it is no definition and no
\* comparison that the pass may take out in its turn
StaysInText(ln) == ~ReTMPS(ln) /\ ~ReTMPSE(ln) /\ ~ReTCOMP(ln)

\* the value of the definition: the line after  set <name> 
DefinedValue(ln) == From(ln, Len(kSet) + Len(Split(ln)[2]) + 2)

\* C27: when _single_tmp_optimize deletes a definition set __tmpN <v>, the
\* line n_lines below has the word __tmpN, and what the pass makes of that
\* line is the line with its words __tmpN replaced by <v> and no other word
\* changed.
C27_OnlyTheTemporaryReplaced ==
    (last.pass = "single" /\ exc = "none") =>
        \A i \in 1..Len(SplitLines(prev)) :
            DefinitionDeleted(SplitLines(prev), i, SplitLines(code)) =>
                /\ i + last.n <= Len(SplitLines(prev))
                /\ Mentions(SplitLines(prev)[i + last.n], Split(SplitLines(prev)[i])[2])
                /\ StaysInText(SplitLines(prev)[i + last.n]) =>
                       Holds(SplitLines(code),
                             Substituted(Split(SplitLines(prev)[i + last.n]),
                                         Split(SplitLines(prev)[i])[2],
                                         DefinedValue(SplitLines(prev)[i])))

\* ---------------------------------------------------------------------
\* C28: the index a label resolves to
\* ---------------------------------------------------------------------

\* set x x
SelfAssignment(ln) == Len(Split(ln)) = 3 /\ Split(ln)[1] = kSet /\ Split(ln)[2] = Split(ln)[3]

\* a line that is an instruction of the output
OutputLine(ln) == ~ReLABEL(ln) /\ ~SelfAssignment(ln)

\* the instructions among the lines lns, in order
RECURSIVE Instructions(_)
Instructions(lns) ==
    IF lns = <<>> THEN <<>>
    ELSE (IF OutputLine(Head(lns)) THEN <<Head(lns)>> ELSE <<>>) \o Instructions(Tail(lns))

\* the places where the label is defined
Definitions(lns, label) == {p \in 1..Len(lns) : lns[p] = <<"<">> \o label}

\* the index of the first instruction after the one definition of the label
IndexAfter(lns, label) ==
    Len(Instructions(SubSeq(lns, 1, (CHOOSE p \in Definitions(lns, label) : TRUE) - 1)))

\* the line is a symbolic jump, and the label it names
SymbolicJump(ln) == ReJUMP(ln) \/ ReCJMP(ln) \/ ReEJMP(ln)
JumpLabel(ln) == Tail(Split(ln)[1])

\* the line jump <n> ... has the index the label stands for, or 0 when no
\* instruction follows the label
ResolvedTo(ln, index, count) ==
    /\ Len(Split(ln)) >= 2
    /\ Split(ln)[1] = kJump
    /\ \/ Split(ln)[2] = NatStr(index)
       \/ index >= count /\ Split(ln)[2] = n0

\* C28: after postprocess, every jump to a label that is defined once has
\* become a jump to the index of the first instruction after the
\* definition, labels and dropped self-assignments not counted, or to 0
\* when nothing follows the label.
C28_LabelIsNextInstruction ==
    (Ended("postprocess") /\ exc = "none" /\ Strip(prev) # <<>>) =>
        \A k \in 1..Len(Instructions(SplitLines(prev))) :
            (/\ SymbolicJump(Instructions(SplitLines(prev))[k])
             /\ Cardinality(Definitions(SplitLines(prev),
                                        JumpLabel(Instructions(SplitLines(prev))[k]))) = 1) =>
                /\ k <= Len(SplitLines(resolved))
                /\ ResolvedTo(SplitLines(resolved)[k],
                              IndexAfter(SplitLines(prev), JumpLabel(Instructions(SplitLines(prev))[k])),
                              Len(Instructions(SplitLines(prev))))

\* ---------------------------------------------------------------------
\* C29: the range of the jump targets
\* ---------------------------------------------------------------------

\* the line is jump <n> ... with a number n
NativeJump(ln) == Len(Split(ln)) >= 2 /\ Split(ln)[1] = kJump /\ IsNum(Split(ln)[2])

\* C29: in the text postprocess returns, the target of every jump is the
\* index of a line of that text.
C29_JumpTargetsInRange ==
    (Ended("postprocess") /\ exc = "none") =>
        \A k \in 1..Len(SplitLines(output)) :
            NativeJump(SplitLines(output)[k]) =>
                DigitsVal(Split(SplitLines(output)[k])[2]) < Len(SplitLines(output))

=============================================================================
